---- MODULE Spec2Model ----
(***************************************************************************)
(* A model of PathPal (src/src/index.ts): the LRUCache class, the strict   *)
(* mode segment validation and the makePath / makeURL resolution pipeline. *)
(*                                                                         *)
(* Strings are sequences of characters.  A character is a one-character    *)
(* TLA+ string, except "%2e", which stands for the three-character         *)
(* percent escape of a dot and is never split by the inputs drawn here.    *)
(***************************************************************************)
EXTENDS Integers, Sequences, FiniteSets, TLC

\* ------------------------------------------------------------------------
\* String helpers (JavaScript String.prototype and Array.prototype methods)
\* ------------------------------------------------------------------------

\* s.startsWith(p)
StartsWith(s, p) ==
  /\ Len(p) <= Len(s)
  /\ SubSeq(s, 1, Len(p)) = p

\* s.includes(sub)
Includes(s, sub) ==
  \E i \in 1..(Len(s) - Len(sub) + 1) : SubSeq(s, i, i + Len(sub) - 1) = sub

\* parts.join(sep), for an array of strings
RECURSIVE JoinWith(_, _)
JoinWith(parts, sep) ==
  IF Len(parts) = 0 THEN <<>>
  ELSE IF Len(parts) = 1 THEN parts[1]
  ELSE parts[1] \o sep \o JoinWith(Tail(parts), sep)

\* s.split(ch), for a one-character separator
RECURSIVE SplitOn(_, _)
SplitOn(s, ch) ==
  IF \A i \in 1..Len(s) : s[i] # ch THEN <<s>>
  ELSE LET i == CHOOSE k \in 1..Len(s) :
                  /\ s[k] = ch
                  /\ \A j \in 1..(k - 1) : s[j] # ch
       IN <<SubSeq(s, 1, i - 1)>> \o SplitOn(SubSeq(s, i + 1, Len(s)), ch)

\* s.trim(): the only whitespace character of the alphabet is the blank
RECURSIVE TrimStart(_)
TrimStart(s) ==
  IF Len(s) > 0 /\ s[1] = " " THEN TrimStart(Tail(s)) ELSE s

RECURSIVE TrimEnd(_)
TrimEnd(s) ==
  IF Len(s) > 0 /\ s[Len(s)] = " " THEN TrimEnd(SubSeq(s, 1, Len(s) - 1)) ELSE s

Trim(s) == TrimEnd(TrimStart(s))

\* ------------------------------------------------------------------------
\* node:path (POSIX): isAbsolute, normalize, join
\* ------------------------------------------------------------------------

isAbsolute(p) == Len(p) > 0 /\ p[1] = "/"

DotDot == <<".", ".">>

\* normalizeString of node:path: fold the segments of a path left to right;
\* "" and "." are skipped, ".." removes the last kept segment, or is kept
\* itself when nothing can be removed and the path is relative.
RECURSIVE normalizeString(_, _, _)
normalizeString(segs, kept, allowAboveRoot) ==
  IF Len(segs) = 0 THEN kept
  ELSE LET s == segs[1]
           rest == Tail(segs)
       IN IF s = <<>> \/ s = <<".">> THEN normalizeString(rest, kept, allowAboveRoot)
          ELSE IF s = DotDot
               THEN IF Len(kept) > 0 /\ kept[Len(kept)] # DotDot
                    THEN normalizeString(rest, SubSeq(kept, 1, Len(kept) - 1),
                                         allowAboveRoot)
                    ELSE IF allowAboveRoot
                         THEN normalizeString(rest, Append(kept, s), allowAboveRoot)
                         ELSE normalizeString(rest, kept, allowAboveRoot)
               ELSE normalizeString(rest, Append(kept, s), allowAboveRoot)

\* path.normalize(p)
normalize(p) ==
  IF Len(p) = 0 THEN <<".">>
  ELSE LET abs == isAbsolute(p)
           trailing == p[Len(p)] = "/"
           body == JoinWith(normalizeString(SplitOn(p, "/"), <<>>, ~abs), <<"/">>)
       IN IF Len(body) = 0
          THEN IF abs THEN <<"/">>
               ELSE IF trailing THEN <<".", "/">> ELSE <<".">>
          ELSE (IF abs THEN <<"/">> ELSE <<>>) \o body
               \o (IF trailing THEN <<"/">> ELSE <<>>)

\* path.join(...paths): the non-empty arguments joined by "/", normalized
join(paths) ==
  LET nonEmpty == SelectSeq(paths, LAMBDA s : Len(s) > 0)
  IN IF Len(nonEmpty) = 0 THEN <<".">>
     ELSE normalize(JoinWith(nonEmpty, <<"/">>))

\* ------------------------------------------------------------------------
\* Template expansion
\* ------------------------------------------------------------------------

\* A template registry entry: kind "none" (no function registered), "str"
\* (the function returns the string val) or "nonstr" (it returns a value
\* that is not a string).
NoTemplate == [kind |-> "none", val |-> <<>>]

\* this.#templates.get(name)
TemplateGet(tpl, name) == IF name \in DOMAIN tpl THEN tpl[name] ELSE NoTemplate

\* Index of the "}" closing a "${" that opens at i, or 0: the regular
\* expression \$\{([^}]+)\} needs at least one character before the "}".
ClosingAt(s, i) ==
  IF /\ i + 2 <= Len(s)
     /\ s[i] = "$"
     /\ s[i + 1] = "{"
     /\ s[i + 2] # "}"
     /\ \E j \in (i + 3)..Len(s) : s[j] = "}"
  THEN CHOOSE j \in (i + 3)..Len(s) :
         /\ s[j] = "}"
         /\ \A k \in (i + 3)..(j - 1) : s[k] # "}"
  ELSE 0

\* renderTemplate(template): every ${name} is replaced, left to right, by
\* the value of the registered function; an unregistered name or a value
\* that is not a string throws.
RECURSIVE renderFrom(_, _, _, _)
renderFrom(s, i, tpl, out) ==
  IF i > Len(s) THEN [ok |-> TRUE, val |-> out, err |-> "none"]
  ELSE LET j == ClosingAt(s, i)
       IN IF j = 0 THEN renderFrom(s, i + 1, tpl, Append(out, s[i]))
          ELSE LET templateFn == TemplateGet(tpl, Trim(SubSeq(s, i + 2, j - 1)))
               IN IF templateFn.kind = "none"
                  THEN [ok |-> FALSE, val |-> <<>>, err |-> "TemplateNotFound"]
                  ELSE IF templateFn.kind # "str"
                       THEN [ok |-> FALSE, val |-> <<>>, err |-> "TemplateNonString"]
                       ELSE renderFrom(s, j + 1, tpl, out \o templateFn.val)

renderTemplate(template, tpl) == renderFrom(template, 1, tpl, <<>>)

\* paths.map(p => p.includes('${') ? this.renderTemplate(p) : p): the
\* first throwing segment aborts the map.
RECURSIVE processPaths(_, _)
processPaths(paths, tpl) ==
  IF Len(paths) = 0 THEN [ok |-> TRUE, val |-> <<>>, err |-> "none"]
  ELSE LET p == paths[1]
           r == IF Includes(p, <<"$", "{">>) THEN renderTemplate(p, tpl)
                ELSE [ok |-> TRUE, val |-> p, err |-> "none"]
       IN IF ~r.ok THEN [ok |-> FALSE, val |-> <<>>, err |-> r.err]
          ELSE LET rest == processPaths(Tail(paths), tpl)
               IN IF ~rest.ok THEN rest
                  ELSE [ok |-> TRUE, val |-> <<r.val>> \o rest.val, err |-> "none"]

\* ------------------------------------------------------------------------
\* Strict mode segment validation
\* ------------------------------------------------------------------------

\* #validatePathSegments(paths): "ok", or the error of the first offending
\* segment; a no-op when strict mode is off.
RECURSIVE validateFrom(_)
validateFrom(paths) ==
  IF Len(paths) = 0 THEN "ok"
  ELSE IF Includes(paths[1], DotDot) THEN "PathTraversal"
  ELSE IF isAbsolute(paths[1]) THEN "AbsolutePath"
  ELSE validateFrom(Tail(paths))

validatePathSegments(paths, isStrict) ==
  IF ~isStrict THEN "ok" ELSE validateFrom(paths)

\* ------------------------------------------------------------------------
\* new URL(joinedPath, baseHref) and fileURLToPath, for file: URLs
\* ------------------------------------------------------------------------

\* A URL path segment that the parser treats as "." or as "..": the
\* percent escape %2e counts as a dot.
IsSingleDot(seg) == seg \in {<<".">>, <<"%2e">>}

IsDoubleDot(seg) ==
  seg \in {<<".", ".">>, <<".", "%2e">>, <<"%2e", ".">>, <<"%2e", "%2e">>}

\* "shorten a path" of the URL standard (no drive letters on POSIX)
Shorten(path) == IF Len(path) = 0 THEN path ELSE SubSeq(path, 1, Len(path) - 1)

\* The characters of the alphabet that the path state percent-encodes
PathEncode(c) ==
  CASE c = "{" -> "%7B"
    [] c = "}" -> "%7D"
    [] c = " " -> "%20"
    [] OTHER -> c

\* decodeURIComponent on one character or escape
PathDecode(c) ==
  CASE c = "%7B" -> "{"
    [] c = "%7D" -> "}"
    [] c = "%20" -> " "
    [] c = "%2e" -> "."
    [] OTHER -> c

MapChars(s, F(_)) == [i \in 1..Len(s) |-> F(s[i])]

\* The path state of the URL parser over the "/"-separated segments of the
\* input: a double-dot segment shortens the path, a single-dot segment is
\* dropped, and either leaves an empty last segment when it ends the input.
RECURSIVE pathState(_, _)
pathState(segs, path) ==
  IF Len(segs) = 0 THEN path
  ELSE LET buffer == segs[1]
           atEnd == Len(segs) = 1
       IN IF IsDoubleDot(buffer)
          THEN pathState(Tail(segs),
                         IF atEnd THEN Append(Shorten(path), <<>>) ELSE Shorten(path))
          ELSE IF IsSingleDot(buffer)
               THEN pathState(Tail(segs), IF atEnd THEN Append(path, <<>>) ELSE path)
               ELSE pathState(Tail(segs), Append(path, MapChars(buffer, PathEncode)))

\* The path of file://<root>/, the base every relative input resolves
\* against: this.#appRoot.href.replace(/\/?$/, '/')
BasePath(root) ==
  LET segs == SplitOn(Tail(root), "/")
  IN IF segs[Len(segs)] = <<>> THEN segs ELSE Append(segs, <<>>)

\* new URL(input, baseHref).pathname: an input that starts with "/"
\* replaces the base path, any other input is resolved against it.
URLPathname(input, root) ==
  LET path == IF isAbsolute(input)
              THEN pathState(SplitOn(Tail(input), "/"), <<>>)
              ELSE pathState(SplitOn(input, "/"), Shorten(BasePath(root)))
  IN <<"/">> \o JoinWith(path, <<"/">>)

\* fileURLToPath(url) on POSIX: the percent-decoded pathname
fileURLToPath(pathname) == MapChars(pathname, PathDecode)

\* makeURL(...paths) followed by fileURLToPath: the segment check, the
\* join and the URL resolution against the root.
makeURL(paths, root, isStrict) ==
  IF Len(paths) = 0 THEN [ok |-> TRUE, val |-> root, err |-> "none"]
  ELSE LET v == validatePathSegments(paths, isStrict)
       IN IF v # "ok" THEN [ok |-> FALSE, val |-> <<>>, err |-> v]
          ELSE [ok |-> TRUE,
                val |-> fileURLToPath(URLPathname(join(paths), root)),
                err |-> "none"]

\* The uncached computation of makePath: template expansion, then makeURL
computePath(paths, root, isStrict, tpl) ==
  LET processed == processPaths(paths, tpl)
  IN IF ~processed.ok THEN processed
     ELSE makeURL(processed.val, root, isStrict)

\* ------------------------------------------------------------------------
\* class LRUCache: a Map in insertion order, as a sequence of entries
\* [key, value, timestamp, accessCount], with the three counters
\* ------------------------------------------------------------------------

\* Position of key in the Map, 0 when absent
IndexOf(c, key) ==
  IF \E i \in 1..Len(c) : c[i].key = key
  THEN CHOOSE i \in 1..Len(c) : c[i].key = key
  ELSE 0

\* Map.delete(key)
MapDelete(c, key) == SelectSeq(c, LAMBDA e : e.key # key)

\* Map.set(key, entry): a present key keeps its position
MapSet(c, entry) ==
  LET i == IndexOf(c, entry.key)
  IN IF i = 0 THEN Append(c, entry) ELSE [c EXCEPT ![i] = entry]

\* Mutant of Expired: the test for an enabled TTL is left out
Expired_NoTtlGuard(entry, t, ttlMs) == t - entry.timestamp > ttlMs

\* this.#ttl > 0 && Date.now() - entry.timestamp > this.#ttl
Expired(entry, t, ttlMs) == ttlMs > 0 /\ t - entry.timestamp > ttlMs

\* The constructor's state
NewCache == [cache |-> <<>>, hits |-> 0, misses |-> 0, evictions |-> 0]

\* Mutant of LRUCache_get: a hit is counted as a miss as well
LRUCache_get_MissOnHit(st, key, t, ttlMs) ==
  LET i == IndexOf(st.cache, key)
  IN IF i = 0
     THEN [st |-> [st EXCEPT !.misses = @ + 1], found |-> FALSE, value |-> <<>>]
     ELSE IF Expired(st.cache[i], t, ttlMs)
          THEN [st |-> [st EXCEPT !.cache = MapDelete(@, key), !.misses = @ + 1],
                found |-> FALSE, value |-> <<>>]
          ELSE [st |-> [st EXCEPT !.cache[i].accessCount = @ + 1, !.hits = @ + 1,
                                  !.misses = @ + 1],
                found |-> TRUE, value |-> st.cache[i].value]

\* LRUCache.get(key): the state afterwards, and the value returned
\* (found = FALSE stands for undefined)
LRUCache_get(st, key, t, ttlMs) ==
  LET i == IndexOf(st.cache, key)
  IN IF i = 0
     THEN [st |-> [st EXCEPT !.misses = @ + 1], found |-> FALSE, value |-> <<>>]
     ELSE IF Expired(st.cache[i], t, ttlMs)
          THEN [st |-> [st EXCEPT !.cache = MapDelete(@, key), !.misses = @ + 1],
                found |-> FALSE, value |-> <<>>]
          ELSE [st |-> [st EXCEPT !.cache[i].accessCount = @ + 1, !.hits = @ + 1],
                found |-> TRUE, value |-> st.cache[i].value]

\* An #evictLRU that takes the last of the entries with the lowest count
LruIndex_LastMin(c) ==
  IF Len(c) = 0 THEN 0
  ELSE CHOOSE i \in 1..Len(c) :
         /\ \A j \in 1..Len(c) : c[i].accessCount <= c[j].accessCount
         /\ \A j \in (i + 1)..Len(c) : c[j].accessCount > c[i].accessCount

\* The key #evictLRU picks: the first entry, in iteration order, whose
\* access count is below every earlier one; 0 for an empty Map
LruIndex(c) ==
  IF Len(c) = 0 THEN 0
  ELSE CHOOSE i \in 1..Len(c) :
         /\ \A j \in 1..Len(c) : c[i].accessCount <= c[j].accessCount
         /\ \A j \in 1..(i - 1) : c[j].accessCount > c[i].accessCount

\* LRUCache.#evictLRU()
evictLRU(st) ==
  LET i == LruIndex(st.cache)
  IN IF i = 0 THEN st
     ELSE [st EXCEPT !.cache = MapDelete(@, st.cache[i].key), !.evictions = @ + 1]

\* Mutant of LRUCache_set: a key already stored keeps its old entry
LRUCache_set_KeepOld(st, key, value, t, maxEntries) ==
  IF IndexOf(st.cache, key) # 0 THEN st
  ELSE LET room == IF Len(st.cache) >= maxEntries THEN evictLRU(st) ELSE st
       IN [room EXCEPT !.cache = Append(@, [key |-> key, value |-> value,
                                            timestamp |-> t, accessCount |-> 0])]

\* LRUCache.set(key, value)
LRUCache_set(st, key, value, t, maxEntries) ==
  LET room == IF Len(st.cache) >= maxEntries /\ IndexOf(st.cache, key) = 0
              THEN evictLRU(st) ELSE st
  IN [room EXCEPT !.cache = MapSet(@, [key |-> key, value |-> value,
                                       timestamp |-> t, accessCount |-> 0])]

\* Mutant of LRUCache_has: the lookup goes through get() and counts
LRUCache_has_CountsAccess(st, key, t, ttlMs) ==
  LET got == LRUCache_get(st, key, t, ttlMs)
  IN [st |-> got.st, found |-> got.found]

\* LRUCache.has(key)
LRUCache_has(st, key, t, ttlMs) ==
  LET i == IndexOf(st.cache, key)
  IN IF i = 0 THEN [st |-> st, found |-> FALSE]
     ELSE IF Expired(st.cache[i], t, ttlMs)
          THEN [st |-> [st EXCEPT !.cache = MapDelete(@, key)], found |-> FALSE]
          ELSE [st |-> st, found |-> TRUE]

\* LRUCache.delete(key)
LRUCache_delete(st, key) ==
  [st |-> [st EXCEPT !.cache = MapDelete(@, key)],
   found |-> IndexOf(st.cache, key) # 0]

\* Mutant of LRUCache_clear: the eviction counter is not reset
LRUCache_clear_KeepEvictions(st) == [NewCache EXCEPT !.evictions = st.evictions]

\* LRUCache.clear()
LRUCache_clear(st) == NewCache

\* LRUCache.getStats(); the hit rate hits / total is kept as the pair
\* <<hits, total>>, and 0 as <<0, 1>>
getStats(st, maxEntries) ==
  [hits |-> st.hits, misses |-> st.misses, size |-> Len(st.cache),
   maxSize |-> maxEntries,
   hitRate |-> IF st.hits + st.misses > 0
               THEN <<st.hits, st.hits + st.misses>> ELSE <<0, 1>>,
   evictions |-> st.evictions]

\* ------------------------------------------------------------------------
\* makePath, with and without the cache
\* ------------------------------------------------------------------------

\* const cacheKey = paths.join('/')
CacheKey(paths) == JoinWith(paths, <<"/">>)

\* A makePath that computes the path again on a hit
makePathCached_Recompute(st, paths, root, isStrict, tpl, t, maxEntries, ttlMs) ==
  LET got == LRUCache_get(st, CacheKey(paths), t, ttlMs)
      res == computePath(paths, root, isStrict, tpl)
  IN IF ~res.ok
     THEN [st |-> got.st, ok |-> FALSE, val |-> <<>>, err |-> res.err,
           hit |-> got.found]
     ELSE IF got.found
          THEN [st |-> got.st, ok |-> TRUE, val |-> res.val, err |-> "none",
                hit |-> TRUE]
          ELSE [st |-> LRUCache_set(got.st, CacheKey(paths), res.val, t, maxEntries),
                ok |-> TRUE, val |-> res.val, err |-> "none", hit |-> FALSE]

\* Mutant of makePathCached: the store is made whether or not the
\* computation threw
makePathCached_StoreOnFailure(st, paths, root, isStrict, tpl, t, maxEntries, ttlMs) ==
  LET got == LRUCache_get(st, CacheKey(paths), t, ttlMs)
      res == computePath(paths, root, isStrict, tpl)
  IN IF got.found
     THEN [st |-> got.st, ok |-> TRUE, val |-> got.value, err |-> "none", hit |-> TRUE]
     ELSE [st |-> LRUCache_set(got.st, CacheKey(paths), res.val, t, maxEntries),
           ok |-> res.ok, val |-> res.val, err |-> res.err, hit |-> FALSE]

\* The cached branch of makePath: the lookup, and on a miss the
\* computation and the store.  A throwing computation leaves the cache as
\* the lookup left it.
makePathCached(st, paths, root, isStrict, tpl, t, maxEntries, ttlMs) ==
  LET got == LRUCache_get(st, CacheKey(paths), t, ttlMs)
      res == computePath(paths, root, isStrict, tpl)
  IN IF got.found
     THEN [st |-> got.st, ok |-> TRUE, val |-> got.value, err |-> "none", hit |-> TRUE]
     ELSE IF ~res.ok
          THEN [st |-> got.st, ok |-> FALSE, val |-> <<>>, err |-> res.err, hit |-> FALSE]
          ELSE [st |-> LRUCache_set(got.st, CacheKey(paths), res.val, t, maxEntries),
                ok |-> TRUE, val |-> res.val, err |-> "none", hit |-> FALSE]

\* makePath(...paths)
makePath(st, enabled, paths, root, isStrict, tpl, t, maxEntries, ttlMs) ==
  IF enabled
  THEN makePathCached(st, paths, root, isStrict, tpl, t, maxEntries, ttlMs)
  ELSE LET res == computePath(paths, root, isStrict, tpl)
       IN [st |-> st, ok |-> res.ok, val |-> res.val, err |-> res.err, hit |-> FALSE]

\* ------------------------------------------------------------------------
\* Bounds and inputs
\* ------------------------------------------------------------------------

\* Largest configured cache.maxSize
MaxCapacity == 2

\* Largest configured cache.ttl, in clock ticks
MaxTtl == 1

\* Last value of the clock Date.now()
MaxTime == 2

\* Cache lookups (hits + misses) per run
MaxCalls == 3

\* Direct cache lookups (hits + misses) per run
MaxGets == 2

\* Evictions per run of direct cache calls
MaxEvictions == 1

\* config.root
Roots == {<<"/", "r">>}

\* config.directories: helper name -> path relative to the root
Directories == [d \in {"logs", "config"} |->
                  IF d = "logs" THEN <<"a">> ELSE <<"a", "b">>]

\* Directory names callers pass; "nonexistent" is not configured
DirNames == {"logs", "nonexistent"}

\* this.#directories[directory]: <<>> stands for undefined
DirPath(directory) ==
  IF directory \in DOMAIN Directories THEN Directories[directory] ELSE <<>>

\* Segment lists passed to makePath
PathLists ==
  { << <<"a">> >>,
    << <<".", ".">>, <<"b">> >>,
    << <<"/", "b">> >>,
    << <<>>, <<"b">> >>,
    << <<"%2e", "%2e">>, <<"b">> >>,
    << <<"$", "{", "t", "}">> >> }

\* Trailing segments passed to isCached
CachedPathLists == { <<>> }

\* Names passed to registerTemplate / unregisterTemplate
TemplateNames == { <<"t">>, <<".">> }

\* Template functions: one returning 'x', one returning a non-string
TemplateFns == { [kind |-> "str", val |-> <<"x">>],
                 [kind |-> "nonstr", val |-> <<>>] }

\* Keys and values passed to the cache directly
Keys == { <<"a">>, <<"b">>, <<"c">> }

Values == { <<"/", "r">>, <<"/", "s">> }

\* The host filesystem when the program starts: the root /r with a
\* directory, a file and three symbolic links, a sibling /rx whose name
\* begins with the root's name, and an unrelated directory /s
HostFs ==
  [dirs |-> { <<"/">>, <<"/", "r">>, <<"/", "r", "/", "a">>,
              <<"/", "r", "x">>, <<"/", "s">> },
   files |-> { <<"/", "r", "/", "f">>, <<"/", "r", "x", "/", "f">>,
               <<"/", "s", "/", "f">> },
   links |-> [l \in { <<"/", "r", "/", "k">>, <<"/", "r", "/", "l">>,
                      <<"/", "r", "/", "m">> } |->
                IF l = <<"/", "r", "/", "k">> THEN <<"/", "r", "/", "f">>
                ELSE IF l = <<"/", "r", "/", "l">> THEN <<"/", "r", "x", "/", "f">>
                ELSE <<"/", "s", "/", "f">>]]

\* How a callback or a call settled: val is the value it resolved with or
\* the error it rejected with; ran is FALSE while there is no outcome
Outcome(ok, val) == [ran |-> TRUE, ok |-> ok, val |-> val]

NoOutcome == [ran |-> FALSE, ok |-> FALSE, val |-> "none"]

\* No temporary instance has been asked for
NoTemp ==
  [mode |-> "none", root |-> <<>>, isCleanedUp |-> FALSE, pending |-> 0,
   calls |-> 0, removals |-> 0, cb |-> NoOutcome, result |-> NoOutcome]

\* ------------------------------------------------------------------------
\* State
\* ------------------------------------------------------------------------

VARIABLES
  appRoot,      \* #appRoot, as a filesystem path
  strict,       \* #strict
  cacheEnabled, \* #cache !== null
  maxSize,      \* LRUCache.#maxSize
  ttl,          \* LRUCache.#ttl
  lru,          \* LRUCache: #cache, #hits, #misses, #evictions
  templates,    \* #templates
  now,          \* Date.now()
  fs,           \* the host filesystem: directories, files, symbolic links
  temp,         \* the temporary instance: tempRoot, isCleanedUp, calls in flight
  inserted,     \* history: keys passed to set() since the cache was new or cleared
  getSetOnly,   \* history: only get() and set() were called since then
  last          \* history: the last call and its outcome

vars == <<appRoot, strict, cacheEnabled, maxSize, ttl, lru, templates, now,
          fs, temp, inserted, getSetOnly, last>>

config == <<appRoot, strict, cacheEnabled, maxSize, ttl>>

\* The entry stored under key is present and past its TTL at time t
ExpiredAt(st, key, t, ttlMs) ==
  /\ IndexOf(st.cache, key) # 0
  /\ Expired(st.cache[IndexOf(st.cache, key)], t, ttlMs)

\* The record of a call: what was called, what it returned (hit: the
\* lookup found the key), whether the entry looked up had expired, and
\* the number of entries before the call
Call(op, paths, key, ok, val, err, hit) ==
  [op |-> op, paths |-> paths, key |-> key, ok |-> ok, val |-> val,
   err |-> err, hit |-> hit,
   expired |-> cacheEnabled /\ ExpiredAt(lru, key, now, ttl),
   size |-> Len(lru.cache)]

InitCommon ==
  /\ appRoot \in Roots
  /\ maxSize \in 0..MaxCapacity
  /\ ttl \in 0..MaxTtl
  /\ lru = NewCache
  /\ now = 0
  /\ fs = HostFs
  /\ temp = NoTemp
  /\ inserted = {}
  /\ getSetOnly = TRUE
  /\ last = [op |-> "new", paths |-> <<>>, key |-> <<>>, ok |-> TRUE,
             val |-> <<>>, err |-> "none", hit |-> FALSE, expired |-> FALSE,
             size |-> 0]

\* new PathPal(config)
Init ==
  /\ InitCommon
  /\ strict \in BOOLEAN
  /\ cacheEnabled \in BOOLEAN
  /\ templates = [n \in {<<"t">>} |-> [kind |-> "str", val |-> <<"x">>]]

\* ------------------------------------------------------------------------
\* Operations of PathPal
\* ------------------------------------------------------------------------

\* pal.makePath(...paths)
MakePath(paths) ==
  /\ cacheEnabled => lru.hits + lru.misses < MaxCalls
  /\ LET r == makePath(lru, cacheEnabled, paths, appRoot, strict, templates,
                       now, maxSize, ttl)
     IN /\ lru' = r.st
        /\ last' = Call("makePath", paths, CacheKey(paths), r.ok, r.val, r.err, r.hit)
  /\ UNCHANGED <<config, fs, temp, templates, now, inserted, getSetOnly>>

\* pal.isCached(directory, ...paths)
isCached(st, enabled, directory, paths, t, ttlMs) ==
  IF ~enabled THEN [st |-> st, found |-> FALSE]
  ELSE IF DirPath(directory) = <<>> THEN [st |-> st, found |-> FALSE]
  ELSE LRUCache_has(st, CacheKey(<<DirPath(directory)>> \o paths), t, ttlMs)

IsCached(directory, paths) ==
  /\ LET r == isCached(lru, cacheEnabled, directory, paths, now, ttl)
     IN /\ lru' = r.st
        /\ last' = Call("isCached", <<DirPath(directory)>> \o paths,
                        CacheKey(<<DirPath(directory)>> \o paths),
                        TRUE, <<>>, "none", r.found)
  /\ UNCHANGED <<config, fs, temp, templates, now, inserted, getSetOnly>>

\* pal.clearCache()
clearCache(st, enabled) == IF ~enabled THEN st ELSE LRUCache_clear(st)

ClearCache ==
  /\ lru' = clearCache(lru, cacheEnabled)
  /\ last' = Call("clearCache", <<>>, <<>>, TRUE, <<>>, "none", FALSE)
  /\ UNCHANGED <<config, fs, temp, templates, now, inserted, getSetOnly>>

\* /^[a-zA-Z_$][a-zA-Z0-9_$]*$/ over the alphabet of the model
IdentifierChars == {"a", "b", "c", "t", "x", "$", "_"}

IsIdentifier(name) ==
  /\ Len(name) > 0
  /\ \A i \in 1..Len(name) : name[i] \in IdentifierChars

\* pal.registerTemplate(name, fn)
registerTemplate(tpl, name, fn) ==
  IF ~IsIdentifier(name) THEN [ok |-> FALSE, tpl |-> tpl]
  ELSE [ok |-> TRUE, tpl |-> [n \in DOMAIN tpl \cup {name} |->
                                 IF n = name THEN fn ELSE tpl[n]]]

RegisterTemplate(name, fn) ==
  /\ LET r == registerTemplate(templates, name, fn)
     IN /\ templates' = r.tpl
        /\ last' = Call("registerTemplate", <<name>>, <<>>, r.ok, <<>>,
                        IF r.ok THEN "none" ELSE "InvalidTemplateName", FALSE)
  /\ UNCHANGED <<config, fs, temp, lru, now, inserted, getSetOnly>>

\* pal.unregisterTemplate(name)
unregisterTemplate(tpl, name) == [n \in DOMAIN tpl \ {name} |-> tpl[n]]

UnregisterTemplate(name) ==
  /\ templates' = unregisterTemplate(templates, name)
  /\ last' = Call("unregisterTemplate", <<name>>, <<>>, TRUE, <<>>, "none", FALSE)
  /\ UNCHANGED <<config, fs, temp, lru, now, inserted, getSetOnly>>

\* The clock advances between calls
Tick ==
  /\ now < MaxTime
  /\ now' = now + 1
  /\ last' = Call("tick", <<>>, <<>>, TRUE, <<>>, "none", FALSE)
  /\ UNCHANGED <<config, fs, temp, lru, templates, inserted, getSetOnly>>

Next ==
  \/ \E paths \in PathLists : MakePath(paths)
  \/ \E d \in DirNames, paths \in CachedPathLists : IsCached(d, paths)
  \/ ClearCache
  \/ \E name \in TemplateNames, fn \in TemplateFns : RegisterTemplate(name, fn)
  \/ \E name \in TemplateNames : UnregisterTemplate(name)
  \/ Tick

Spec == Init /\ [][Next]_vars

\* The resolver with its template registry left as configured: makePath
\* calls, and the clock
PathNext ==
  \/ \E paths \in PathLists : MakePath(paths)
  \/ Tick

PathSpec == Init /\ [][PathNext]_vars

\* ------------------------------------------------------------------------
\* Operations of LRUCache, called directly
\* ------------------------------------------------------------------------

\* new LRUCache(maxSize, ttl)
CacheInit ==
  /\ InitCommon
  /\ strict = FALSE
  /\ cacheEnabled = TRUE
  /\ templates = [n \in {<<"t">>} |-> [kind |-> "str", val |-> <<"x">>]]

Get(key) ==
  /\ lru.hits + lru.misses < MaxGets
  /\ LET r == LRUCache_get(lru, key, now, ttl)
     IN /\ lru' = r.st
        /\ last' = Call("get", <<>>, key, TRUE, r.value, "none", r.found)
  /\ UNCHANGED <<config, fs, temp, templates, now, inserted, getSetOnly>>

Set(key, value) ==
  /\ lru.evictions < MaxEvictions
  /\ lru' = LRUCache_set(lru, key, value, now, maxSize)
  /\ inserted' = inserted \cup {key}
  /\ last' = Call("set", <<>>, key, TRUE, value, "none", FALSE)
  /\ UNCHANGED <<config, fs, temp, templates, now, getSetOnly>>

Has(key) ==
  /\ LET r == LRUCache_has(lru, key, now, ttl)
     IN /\ lru' = r.st
        /\ last' = Call("has", <<>>, key, TRUE, <<>>, "none", r.found)
  /\ getSetOnly' = FALSE
  /\ UNCHANGED <<config, fs, temp, templates, now, inserted>>

Delete(key) ==
  /\ LET r == LRUCache_delete(lru, key)
     IN /\ lru' = r.st
        /\ last' = Call("delete", <<>>, key, TRUE, <<>>, "none", r.found)
  /\ getSetOnly' = FALSE
  /\ UNCHANGED <<config, fs, temp, templates, now, inserted>>

Clear ==
  /\ lru' = LRUCache_clear(lru)
  /\ inserted' = {}
  /\ getSetOnly' = TRUE
  /\ last' = Call("clear", <<>>, <<>>, TRUE, <<>>, "none", FALSE)
  /\ UNCHANGED <<config, fs, temp, templates, now>>

CacheNext ==
  \/ \E key \in Keys : Get(key)
  \/ \E key \in Keys, value \in Values : Set(key, value)
  \/ \E key \in Keys : Has(key)
  \/ \E key \in Keys : Delete(key)
  \/ Clear
  \/ Tick

CacheSpec == CacheInit /\ [][CacheNext]_vars

\* ------------------------------------------------------------------------
\* Path helpers and clearCache(directory)
\* ------------------------------------------------------------------------

\* Names of the configured directories, whose helpers exist
HelperNames == DOMAIN Directories

\* Directory names passed to clearCache; '' is the empty string
ClearNames == {"logs", "config", "nonexistent", ""}

\* Trailing segments passed to a path helper
HelperPathLists == { <<>>, << <<"x">> >> }

\* pal.clearCache(directory)
clearCacheDirectory(st, enabled, directory) ==
  IF ~enabled THEN st
  ELSE IF directory # ""
  THEN IF DirPath(directory) # <<>>
       THEN [st EXCEPT !.cache =
               SelectSeq(st.cache,
                         LAMBDA e : ~StartsWith(e.key, DirPath(directory)))]
       ELSE st
  ELSE LRUCache_clear(st)

\* new PathPal({root, directories, cache})
DirInit ==
  /\ InitCommon
  /\ strict = FALSE
  /\ cacheEnabled \in BOOLEAN
  /\ templates = [n \in {<<"t">>} |-> [kind |-> "str", val |-> <<"x">>]]

\* pal.<name>Path(...paths)
HelperPath(name, paths) == MakePath(<<DirPath(name)>> \o paths)

ClearCacheDirectory(directory) ==
  /\ lru' = clearCacheDirectory(lru, cacheEnabled, directory)
  /\ last' = Call("clearCache", <<directory>>, <<>>, TRUE, <<>>, "none", FALSE)
  /\ UNCHANGED <<config, fs, temp, templates, now, inserted, getSetOnly>>

DirNext ==
  \/ \E name \in HelperNames, paths \in HelperPathLists : HelperPath(name, paths)
  \/ \E directory \in ClearNames : ClearCacheDirectory(directory)
  \/ Tick

DirSpec == DirInit /\ [][DirNext]_vars

\* ------------------------------------------------------------------------
\* The host filesystem (node:fs), as far as the file operations use it
\* ------------------------------------------------------------------------

\* The name the host resolves a path to: normalized, and without a
\* trailing separator
Canon(p) ==
  LET n == normalize(p)
  IN IF Len(n) > 1 /\ n[Len(n)] = "/" THEN SubSeq(n, 1, Len(n) - 1) ELSE n

\* Everything that exists
Nodes(f) == f.dirs \cup f.files \cup DOMAIN f.links

\* p is d or lies beneath the directory d
Under(p, d) == p = d \/ StartsWith(p, d \o <<"/">>)

\* The directories above n
Ancestors(n) ==
  {<<"/">>} \cup {SubSeq(n, 1, i - 1) : i \in {k \in 2..Len(n) : n[k] = "/"}}

\* The directory that holds n
Parent(n) ==
  CHOOSE a \in Ancestors(n) : \A b \in Ancestors(n) : Len(b) <= Len(a)

\* The result of a host call: the filesystem afterwards and the error
FsResult(f, err) == [fs |-> f, ok |-> err = "none", err |-> err]

\* fs.realpath(p): the target of a link, the path of anything else
realpath(f, p) ==
  LET n == Canon(p)
  IN IF n \in DOMAIN f.links /\ f.links[n] \in Nodes(f)
     THEN [ok |-> TRUE, val |-> f.links[n]]
     ELSE IF n \in f.dirs \cup f.files THEN [ok |-> TRUE, val |-> n]
     ELSE [ok |-> FALSE, val |-> <<>>]

\* fs.readFile(p)
fsReadFile(f, p) ==
  LET n == Canon(p)
  IN IF n \in f.files \/ (n \in DOMAIN f.links /\ f.links[n] \in f.files)
     THEN FsResult(f, "none")
     ELSE IF n \in f.dirs THEN FsResult(f, "EISDIR") ELSE FsResult(f, "ENOENT")

\* fs.writeFile(p, data)
fsWriteFile(f, p, data) ==
  LET n == Canon(p)
  IN IF n \in f.dirs \/ p[Len(p)] = "/" THEN FsResult(f, "EISDIR")
     ELSE IF n \in DOMAIN f.links \/ n \in f.files THEN FsResult(f, "none")
     ELSE IF Parent(n) \notin f.dirs THEN FsResult(f, "ENOENT")
     ELSE FsResult([f EXCEPT !.files = @ \cup {n}], "none")

\* fs.mkdir(p, {recursive})
fsMkdir(f, p, recursive) ==
  LET n == Canon(p)
  IN IF n \in Nodes(f)
     THEN IF recursive /\ n \in f.dirs THEN FsResult(f, "none")
          ELSE FsResult(f, "EEXIST")
     ELSE IF recursive
          THEN IF Ancestors(n) \cap (f.files \cup DOMAIN f.links) # {}
               THEN FsResult(f, "ENOTDIR")
               ELSE FsResult([f EXCEPT !.dirs = @ \cup Ancestors(n) \cup {n}], "none")
          ELSE IF Parent(n) \notin f.dirs THEN FsResult(f, "ENOENT")
               ELSE FsResult([f EXCEPT !.dirs = @ \cup {n}], "none")

\* fs.rm(p, {recursive, force}): a link is removed, not followed
fsRm(f, p, recursive, force) ==
  LET n == Canon(p)
  IN IF n \in DOMAIN f.links
     THEN FsResult([f EXCEPT !.links = [l \in DOMAIN f.links \ {n} |-> f.links[l]]],
                   "none")
     ELSE IF n \in f.files THEN FsResult([f EXCEPT !.files = @ \ {n}], "none")
     ELSE IF n \in f.dirs
          THEN IF recursive
               THEN FsResult(
                      [dirs |-> {d \in f.dirs : ~Under(d, n)},
                       files |-> {x \in f.files : ~Under(x, n)},
                       links |-> [l \in {y \in DOMAIN f.links : ~Under(y, n)} |->
                                    f.links[l]]],
                      "none")
               ELSE FsResult(f, "EISDIR")
          ELSE IF force THEN FsResult(f, "none") ELSE FsResult(f, "ENOENT")

\* fs.readdir(p)
readdir(f, p) ==
  IF Canon(p) \in f.dirs THEN FsResult(f, "none")
  ELSE IF Canon(p) \in Nodes(f) THEN FsResult(f, "ENOTDIR")
  ELSE FsResult(f, "ENOENT")

\* fs.watch(p)
fsWatchSync(f, p) ==
  IF Canon(p) \in Nodes(f) THEN FsResult(f, "none") ELSE FsResult(f, "ENOENT")

\* ------------------------------------------------------------------------
\* Boundary checks and file operations of PathPal
\* ------------------------------------------------------------------------

\* Nodes by which the filesystem may differ from its initial state before
\* further changes stop
MaxFsChanges == 1

\* Nodes created or removed so far
FsChanges ==
  Cardinality((Nodes(fs) \ Nodes(HostFs)) \cup (Nodes(HostFs) \ Nodes(fs)))

\* Paths passed to the file operations
FsPaths ==
  { <<"/", "r">>, <<"/", "r", "/">>, <<".">>, <<"a">>, <<"n">>,
    <<"/", "r", "/", "f">>, <<"/", "r", "/", "k">>, <<"/", "r", "/", "l">>,
    <<"/", "r", "/", "m">>, <<"/", "r", "x">>, <<"/", "r", "x", "/", "f">>,
    <<"/", "s", "/", "f">>, <<".", ".", "/", "s">> }

\* const absolutePath = isAbsolute(path) ? path : this.makePath(path)
absolutePath(path) ==
  IF isAbsolute(path)
  THEN [st |-> lru, ok |-> TRUE, val |-> path, err |-> "none", hit |-> FALSE]
  ELSE makePath(lru, cacheEnabled, <<path>>, appRoot, strict, templates,
                now, maxSize, ttl)

\* isWithinRoot for an absolute path: normalize, then startsWith
withinRoot(path) == StartsWith(normalize(path), appRoot)

\* pal.isWithinRoot(path), a being the path made absolute
isWithinRoot(a) ==
  [st |-> a.st, ok |-> a.ok, err |-> a.err, val |-> a.ok /\ withinRoot(a.val)]

\* #validateStrictMode(path), always called with an absolute path: TRUE
\* when it returns
validateStrictMode(path) == ~(strict /\ ~withinRoot(path))

\* The record of a call that may reach the host filesystem: called tells
\* whether a host call was made, target the path it was made on (or, for
\* resolveSymlink, the path the host resolved), removed what it deleted
FsCall(op, path, ok, val, err, called, target, removed) ==
  [op |-> op, path |-> path, ok |-> ok, val |-> val, err |-> err,
   called |-> called, target |-> target, removed |-> removed]

\* new PathPal({root, strict})
FsInit ==
  /\ InitCommon
  /\ maxSize = MaxCapacity
  /\ ttl = 0
  /\ strict \in BOOLEAN
  /\ cacheEnabled = FALSE
  /\ templates = [n \in {<<"t">>} |-> [kind |-> "str", val |-> <<"x">>]]

\* pal.ensureDir(path) / ensureDirSync: an error of the recursive mkdir
\* is swallowed when the path is a directory
ensureDir(f, p) ==
  LET r == fsMkdir(f, p, TRUE)
  IN IF ~r.ok /\ Canon(p) \in f.dirs THEN FsResult(f, "none") ELSE r

\* The host call each file operation ends with
hostCall(op, f, p) ==
  CASE op = "readFile" -> fsReadFile(f, p)
    [] op = "writeFile" -> fsWriteFile(f, p, <<>>)
    [] op = "mkdir" -> fsMkdir(f, p, FALSE)
    [] op = "ensureDir" -> ensureDir(f, p)
    [] op = "watch" -> fsWatchSync(f, p)
    [] OTHER -> readdir(f, p)

\* The outcome of a file operation that got as far as its host call
Called(op, path, target, r) ==
  /\ fs' = r.fs
  /\ last' = FsCall(op, path, r.ok, target, r.err, TRUE, target,
                    Nodes(fs) \ Nodes(r.fs))

\* The outcome of a file operation that threw before any host call
Thrown(op, path, err) ==
  /\ fs' = fs
  /\ last' = FsCall(op, path, FALSE, <<>>, err, FALSE, <<>>, {})

\* The common shape of the file operations, a being the argument made
\* absolute: check the boundary in strict mode, then make the host call
FileOperation(op, path, a) ==
  /\ lru' = a.st
  /\ IF ~a.ok THEN Thrown(op, path, a.err)
     ELSE IF ~validateStrictMode(a.val) THEN Thrown(op, path, "OutsideRoot")
     ELSE Called(op, path, a.val, hostCall(op, fs, a.val))
  /\ UNCHANGED <<config, temp, templates, now, inserted, getSetOnly>>

\* pal.readFile(path) / readFileSync
ReadFile(path) == FileOperation("readFile", path, absolutePath(path))

\* pal.writeFile(path, data) / writeFileSync
WriteFile(path) ==
  /\ FsChanges < MaxFsChanges
  /\ FileOperation("writeFile", path, absolutePath(path))

\* pal.mkdir(path) / mkdirSync
Mkdir(path) ==
  /\ FsChanges < MaxFsChanges
  /\ FileOperation("mkdir", path, absolutePath(path))

EnsureDir(path) ==
  /\ FsChanges < MaxFsChanges
  /\ FileOperation("ensureDir", path, absolutePath(path))

\* pal.listFiles(path) / listFilesSync
ListFiles(path) == FileOperation("listFiles", path, absolutePath(path))

\* pal.watch(path, listener)
Watch(path) == FileOperation("watch", path, absolutePath(path))

\* pal.glob(pattern, {cwd}) / globSync: the base directory is checked and
\* then listed
Glob(cwd) == FileOperation("glob", cwd, absolutePath(cwd))

\* pal.rmdir(path, options) / rmdirSync, a being the argument made
\* absolute: the root test stands between the boundary check and the
\* host call
rmdir(op, path, recursive, force, a) ==
  /\ lru' = a.st
  /\ IF ~a.ok THEN Thrown(op, path, a.err)
     ELSE IF ~validateStrictMode(a.val) THEN Thrown(op, path, "OutsideRoot")
     ELSE IF a.val = appRoot THEN Thrown(op, path, "CannotDeleteRoot")
     ELSE Called(op, path, a.val, fsRm(fs, a.val, recursive, force))
  /\ UNCHANGED <<config, temp, templates, now, inserted, getSetOnly>>

Rmdir(path, recursive) ==
  /\ FsChanges < MaxFsChanges
  /\ rmdir("rmdir", path, recursive, FALSE, absolutePath(path))

\* pal.deleteRecursive(path) / deleteRecursiveSync
DeleteRecursive(path) ==
  /\ FsChanges < MaxFsChanges
  /\ rmdir("deleteRecursive", path, TRUE, TRUE, absolutePath(path))

\* The catch branch of resolveSymlink for ENOENT: the argument is made
\* absolute once more and returned
resolveFallback(path, a) ==
  IF isAbsolute(path) THEN a
  ELSE makePath(a.st, cacheEnabled, <<path>>, appRoot, strict, templates,
                now, maxSize, ttl)

\* pal.resolveSymlink(path) / resolveSymlinkSync, a being the argument
\* made absolute, r the answer of realpath and again the fallback
resolveSymlink(path, a, r, again) ==
  IF ~a.ok
  THEN /\ lru' = a.st
       /\ last' = FsCall("resolveSymlink", path, FALSE, <<>>, a.err, FALSE,
                         <<>>, {})
  ELSE IF ~r.ok
       THEN /\ lru' = again.st
            /\ last' = FsCall("resolveSymlink", path, again.ok, again.val,
                              again.err, TRUE, <<>>, {})
       ELSE IF strict /\ ~withinRoot(r.val)
            THEN /\ lru' = a.st
                 /\ last' = FsCall("resolveSymlink", path, FALSE, <<>>,
                                   "SymlinkOutsideRoot", TRUE, r.val, {})
            ELSE /\ lru' = a.st
                 /\ last' = FsCall("resolveSymlink", path, TRUE, r.val,
                                   "none", TRUE, r.val, {})

ResolveSymlink(path) ==
  /\ resolveSymlink(path, absolutePath(path),
                    realpath(fs, absolutePath(path).val),
                    resolveFallback(path, absolutePath(path)))
  /\ UNCHANGED <<config, fs, temp, templates, now, inserted, getSetOnly>>

\* The outcome of isWithinRoot
Answered(path, r) ==
  /\ lru' = r.st
  /\ last' = FsCall("isWithinRoot", path, r.ok, r.val, r.err, FALSE, <<>>, {})

IsWithinRoot(path) ==
  /\ Answered(path, isWithinRoot(absolutePath(path)))
  /\ UNCHANGED <<config, fs, temp, templates, now, inserted, getSetOnly>>

FsNext ==
  \/ \E path \in FsPaths : IsWithinRoot(path)
  \/ \E path \in FsPaths : ResolveSymlink(path)
  \/ \E path \in FsPaths : ReadFile(path)
  \/ \E path \in FsPaths : WriteFile(path)
  \/ \E path \in FsPaths : Mkdir(path)
  \/ \E path \in FsPaths : EnsureDir(path)
  \/ \E path \in FsPaths : ListFiles(path)
  \/ \E path \in FsPaths : Watch(path)
  \/ \E path \in FsPaths : Glob(path)
  \/ \E path \in FsPaths, recursive \in BOOLEAN : Rmdir(path, recursive)
  \/ \E path \in FsPaths : DeleteRecursive(path)

FsSpec == FsInit /\ [][FsNext]_vars

\* ------------------------------------------------------------------------
\* Filename and path sanitization
\* ------------------------------------------------------------------------

\* Characters of the alphabet by class: "^@" is NUL, "^A" another control
\* character, "U+200B" a zero-width space, "U+0301" a combining acute
\* accent and "U+00E9" the letter it composes with "e".
ZeroWidthChars == {"U+200B"}

ControlChars == {"^@", "^A"}

DangerousChars == {"<", ">", ":", "\"", "|", "?", "*", "\\", "/", "^@"}

DotsAndSpaces == {".", " "}

\* s.normalize('NFC') over the alphabet: "e" followed by the combining
\* accent composes to one character
RECURSIVE normalizeNFC(_)
normalizeNFC(s) ==
  IF Len(s) = 0 THEN s
  ELSE IF Len(s) >= 2 /\ s[1] = "e" /\ s[2] = "U+0301"
       THEN <<"U+00E9">> \o normalizeNFC(SubSeq(s, 3, Len(s)))
       ELSE <<s[1]>> \o normalizeNFC(Tail(s))

\* s.replace(/[set]/g, replacement)
RECURSIVE ReplaceAll(_, _, _)
ReplaceAll(s, set, replacement) ==
  IF Len(s) = 0 THEN s
  ELSE (IF s[1] \in set THEN replacement ELSE <<s[1]>>)
       \o ReplaceAll(Tail(s), set, replacement)

\* s.slice(0, end), a negative end counting from the end of s
Slice0(s, end) ==
  LET e == IF end < 0 THEN Len(s) + end ELSE end
  IN IF e <= 0 THEN <<>> ELSE IF e >= Len(s) THEN s ELSE SubSeq(s, 1, e)

\* s.toUpperCase() over the alphabet
toUpperCase(s) ==
  [i \in 1..Len(s) |->
     CASE s[i] = "c" -> "C" [] s[i] = "o" -> "O" [] s[i] = "n" -> "N"
       [] s[i] = "a" -> "A" [] s[i] = "x" -> "X" [] s[i] = "e" -> "E"
       [] OTHER -> s[i]]

\* s.replace(/^[.\s]+|[.\s]+$/g, '')
RECURSIVE TrimDotsStart(_)
TrimDotsStart(s) ==
  IF Len(s) > 0 /\ s[1] \in DotsAndSpaces THEN TrimDotsStart(Tail(s)) ELSE s

RECURSIVE TrimDotsEnd(_)
TrimDotsEnd(s) ==
  IF Len(s) > 0 /\ s[Len(s)] \in DotsAndSpaces
  THEN TrimDotsEnd(SubSeq(s, 1, Len(s) - 1)) ELSE s

Unnamed == <<"u", "n", "n", "a", "m", "e", "d">>

\* #getWindowsReservedNames()
WindowsReservedNames ==
  { <<"C", "O", "N">>, <<"P", "R", "N">>, <<"A", "U", "X">>, <<"N", "U", "L">> }
  \cup { <<"C", "O", "M", d>> : d \in {"1", "2", "3", "4", "5", "6", "7", "8", "9"} }
  \cup { <<"L", "P", "T", d>> : d \in {"1", "2", "3", "4", "5", "6", "7", "8", "9"} }

\* #splitFilename(filename): name and extension at the last dot
splitFilename(filename) ==
  IF \A i \in 1..Len(filename) : filename[i] # "."
  THEN [name |-> filename, ext |-> <<>>]
  ELSE LET lastDotIndex == CHOOSE i \in 1..Len(filename) :
                             /\ filename[i] = "."
                             /\ \A j \in (i + 1)..Len(filename) : filename[j] # "."
       IN [name |-> SubSeq(filename, 1, lastDotIndex - 1),
           ext |-> SubSeq(filename, lastDotIndex, Len(filename))]

\* The "Handle dots" stage of #cleanFilename
replaceDots(s, replacement) ==
  IF splitFilename(s).ext # <<>>
  THEN ReplaceAll(splitFilename(s).name, {"."}, replacement) \o splitFilename(s).ext
  ELSE ReplaceAll(s, {"."}, replacement)

\* #cleanFilename with the dangerous characters left in place
cleanFilename_KeepDangerous(filename, o) ==
  LET s1 == IF o.normalizeUnicode THEN normalizeNFC(filename) ELSE filename
      s2 == IF o.removeZeroWidth THEN ReplaceAll(s1, ZeroWidthChars, <<>>) ELSE s1
      s3 == IF o.removeControlChars THEN ReplaceAll(s2, ControlChars, <<>>) ELSE s2
      s5 == IF ~o.allowSpaces THEN ReplaceAll(s3, {" "}, o.replacement) ELSE s3
      s6 == IF ~o.allowDots THEN replaceDots(s5, o.replacement) ELSE s5
      s7 == TrimDotsEnd(TrimDotsStart(s6))
  IN IF s7 = <<>> THEN Unnamed ELSE s7

\* #cleanFilename(filename, replacement, allowDots, ...)
cleanFilename(filename, o) ==
  LET s1 == IF o.normalizeUnicode THEN normalizeNFC(filename) ELSE filename
      s2 == IF o.removeZeroWidth THEN ReplaceAll(s1, ZeroWidthChars, <<>>) ELSE s1
      s3 == IF o.removeControlChars THEN ReplaceAll(s2, ControlChars, <<>>) ELSE s2
      s4 == ReplaceAll(s3, DangerousChars, o.replacement)
      s5 == IF ~o.allowSpaces THEN ReplaceAll(s4, {" "}, o.replacement) ELSE s4
      s6 == IF ~o.allowDots THEN replaceDots(s5, o.replacement) ELSE s5
      s7 == TrimDotsEnd(TrimDotsStart(s6))
  IN IF s7 = <<>> THEN Unnamed ELSE s7

\* #handleReservedNames(filename, replacement)
handleReservedNames(filename, replacement) ==
  IF toUpperCase(splitFilename(filename).name) \in WindowsReservedNames
  THEN splitFilename(filename).name \o replacement \o splitFilename(filename).ext
  ELSE filename

\* #truncateFilename without the length test: every name is cut
truncateFilename_Blind(filename, maxLength, preserveExtension) ==
  Slice0(filename, maxLength - 1)

\* #truncateFilename(filename, maxLength, preserveExtension)
truncateFilename(filename, maxLength, preserveExtension) ==
  IF Len(filename) <= maxLength THEN filename
  ELSE IF /\ preserveExtension
          /\ splitFilename(filename).ext # <<>>
          /\ maxLength - Len(splitFilename(filename).ext) > 0
       THEN Slice0(splitFilename(filename).name,
                   maxLength - Len(splitFilename(filename).ext))
            \o splitFilename(filename).ext
       ELSE Slice0(filename, maxLength)

\* pal.sanitizeFilename(filename, options)
sanitizeFilename(filename, o) ==
  truncateFilename(handleReservedNames(cleanFilename(filename, o), o.replacement),
                   o.maxLength, o.preserveExtension)

\* path.split(/[/\\]/)
RECURSIVE SplitOnSeparators(_)
SplitOnSeparators(s) ==
  IF \A i \in 1..Len(s) : s[i] \notin {"/", "\\"} THEN <<s>>
  ELSE LET i == CHOOSE k \in 1..Len(s) :
                  /\ s[k] \in {"/", "\\"}
                  /\ \A j \in 1..(k - 1) : s[j] \notin {"/", "\\"}
       IN <<SubSeq(s, 1, i - 1)>> \o SplitOnSeparators(SubSeq(s, i + 1, Len(s)))

\* sanitizePath that keeps the '..' segments for sanitizeFilename
sanitizePath_KeepDotDot(path, o) ==
  LET segments == SelectSeq(SplitOnSeparators(path), LAMBDA seg : Len(seg) > 0)
  IN JoinWith([i \in 1..Len(segments) |-> sanitizeFilename(segments[i], o)],
              <<"/">>)

\* pal.sanitizePath(path, options)
sanitizePath(path, o) ==
  LET segments == SelectSeq(SplitOnSeparators(path), LAMBDA seg : Len(seg) > 0)
      cleanedSegments == SelectSeq(segments, LAMBDA seg : seg # DotDot)
  IN JoinWith([i \in 1..Len(cleanedSegments) |->
                 sanitizeFilename(cleanedSegments[i], o)],
              <<"/">>)

\* Longest name and longest path drawn from the alphabets in full
MaxNameLen == 2

MaxPathLen == 3

\* The largest of the small values of maxLength
SmallMaxLength == 3

\* maxLength = 255
DefaultMaxLength == 255

\* const { replacement = '_', maxLength = 255, ... } = options
DefaultOptions ==
  [replacement |-> <<"_">>, maxLength |-> DefaultMaxLength,
   preserveExtension |-> TRUE, allowDots |-> TRUE, allowSpaces |-> TRUE,
   removeZeroWidth |-> TRUE, removeControlChars |-> TRUE,
   normalizeUnicode |-> TRUE]

\* Options records passed to sanitizeFilename
SanitizeOptions ==
  [replacement : {<<"_">>, <<>>, <<".">>},
   maxLength : (0..SmallMaxLength) \cup {DefaultMaxLength},
   preserveExtension : BOOLEAN, allowDots : BOOLEAN, allowSpaces : BOOLEAN,
   removeZeroWidth : BOOLEAN, removeControlChars : BOOLEAN,
   normalizeUnicode : BOOLEAN]

\* All strings over an alphabet up to a length
StringsUpTo(alphabet, n) == UNION {[1..k -> alphabet] : k \in 0..n}

\* Filenames passed to sanitizeFilename: every short name over the
\* alphabet, and longer names of the kinds the code distinguishes
Filenames ==
  StringsUpTo({"a", ".", " ", "<", "/", "\\", "^@", "U+200B"}, MaxNameLen)
  \cup { <<"C", "O", "N">>, <<"c", "o", "n">>, <<"A", "U", "X">>,
         <<"C", "O", "M", "1">>, <<"C", "O", "N", ".", "t", "x", "t">>,
         <<"C", "O", "N", "x">>, <<"C", "O", "N", "x", ".", "a">>,
         <<"C", "O", "N", ".">>, <<"C", "O", "N", "<">>,
         <<".", ".", ".">>, <<" ", " ", " ">>,
         <<".", ".", ".", "x", ".", ".", ".">>,
         <<"a", "b", ".", "c">>, <<"a", ".", "b", ".", "c">>,
         <<"e", "U+0301">>, <<"^A", "a">>, <<"a", ">", ":", "\"", "|", "?", "*">> }

\* 'uploads/../../etc/passwd'
UploadsPath ==
  <<"u", "p", "l", "o", "a", "d", "s", "/", ".", ".", "/", ".", ".", "/",
    "e", "t", "c", "/", "p", "a", "s", "s", "w", "d">>

\* Paths passed to sanitizePath
SanitizePaths ==
  StringsUpTo({"a", ".", "/", "\\", "<"}, MaxPathLen)
  \cup { UploadsPath,
         <<"a", "/", "/", "b", "/", "/", "/", "c">>,
         <<"a", "\\", ".", ".", "\\", "b">>,
         <<".", ".", "/", ".", ".">>,
         <<"a", "/", ".", ".", ".", "/", "b">>,
         <<"C", "O", "N", "/", ".", ".", " ", "/", "x">> }

\* The calls to make: the function to apply and its arguments
SanitizeCalls ==
  [op : {"call"}, fn : {"sanitizeFilename"}, arg : Filenames,
   opts : SanitizeOptions]
  \cup [op : {"call"}, fn : {"sanitizePath"}, arg : SanitizePaths,
        opts : {DefaultOptions}]

\* new PathPal({root}), and a call about to be made
SanInit ==
  /\ appRoot \in Roots
  /\ strict = FALSE
  /\ cacheEnabled = FALSE
  /\ maxSize = MaxCapacity
  /\ ttl = 0
  /\ lru = NewCache
  /\ templates = [n \in {<<"t">>} |-> [kind |-> "str", val |-> <<"x">>]]
  /\ now = 0
  /\ fs = HostFs
  /\ temp = NoTemp
  /\ inserted = {}
  /\ getSetOnly = TRUE
  /\ last \in SanitizeCalls

SanitizeFilename ==
  /\ last.op = "call"
  /\ last.fn = "sanitizeFilename"
  /\ last' = [op |-> "sanitizeFilename", arg |-> last.arg, opts |-> last.opts,
              val |-> sanitizeFilename(last.arg, last.opts)]
  /\ UNCHANGED <<config, fs, temp, lru, templates, now, inserted, getSetOnly>>

SanitizePath ==
  /\ last.op = "call"
  /\ last.fn = "sanitizePath"
  /\ last' = [op |-> "sanitizePath", arg |-> last.arg, opts |-> last.opts,
              val |-> sanitizePath(last.arg, last.opts)]
  /\ UNCHANGED <<config, fs, temp, lru, templates, now, inserted, getSetOnly>>

\* pal.sanitizeFilename(result, options), on the result of the call before
\* and with the same options
SanitizeFilenameAgain ==
  /\ last.op = "sanitizeFilename"
  /\ last' = [op |-> "sanitizeFilenameAgain", arg |-> last.val,
              opts |-> last.opts, val |-> sanitizeFilename(last.val, last.opts)]
  /\ UNCHANGED <<config, fs, temp, lru, templates, now, inserted, getSetOnly>>

SanNext ==
  \/ SanitizeFilename
  \/ SanitizePath
  \/ SanitizeFilenameAgain

SanSpec == SanInit /\ [][SanNext]_vars

\* ------------------------------------------------------------------------
\* class GlobMatcher
\* ------------------------------------------------------------------------

\* A GlobSegment: value is a string, or the list of alternatives of a brace
GlobSegment(type, value, negated) ==
  [type |-> type, value |-> value, negated |-> negated]

\* #flushLiteral(segments, current): the segments afterwards
flushLiteral(segments, current) ==
  IF current # <<>>
  THEN Append(segments, GlobSegment("literal", current, FALSE))
  ELSE segments

\* An indexOf that answers the end of the pattern when there is none
IndexOfFrom_ToEnd(pattern, ch, from) ==
  IF \E k \in from..Len(pattern) : pattern[k] = ch
  THEN CHOOSE k \in from..Len(pattern) :
         /\ pattern[k] = ch
         /\ \A j \in from..(k - 1) : pattern[j] # ch
  ELSE Len(pattern) + 1

\* pattern.indexOf(ch, from), 1-based, 0 when there is none
IndexOfFrom(pattern, ch, from) ==
  IF \E k \in from..Len(pattern) : pattern[k] = ch
  THEN CHOOSE k \in from..Len(pattern) :
         /\ pattern[k] = ch
         /\ \A j \in from..(k - 1) : pattern[j] # ch
  ELSE 0

\* The loop of #findClosingBrace from position i at nesting depth
RECURSIVE closingBraceFrom(_, _, _)
closingBraceFrom(pattern, i, depth) ==
  IF i > Len(pattern) \/ depth = 0
  THEN IF depth = 0 THEN i - 1 ELSE 0
  ELSE IF pattern[i] = "\\" THEN closingBraceFrom(pattern, i + 2, depth)
       ELSE closingBraceFrom(pattern, i + 1,
                             depth + (IF pattern[i] = "{" THEN 1 ELSE 0)
                                   - (IF pattern[i] = "}" THEN 1 ELSE 0))

\* #findClosingBrace(pattern, startIndex), 1-based, 0 when there is none
findClosingBrace(pattern, startIndex) ==
  closingBraceFrom(pattern, startIndex + 1, 1)

\* The segment #parseRange pushes for the content between [ and ]
rangeSegment(rangeContent) ==
  IF Len(rangeContent) > 0 /\ rangeContent[1] \in {"!", "^"}
  THEN GlobSegment("range", Tail(rangeContent), TRUE)
  ELSE GlobSegment("range", rangeContent, FALSE)

\* The position after a globstar at i: a following "/" is swallowed
afterGlobstar(pattern, i) ==
  IF i + 2 <= Len(pattern) /\ pattern[i + 2] = "/" THEN i + 3 ELSE i + 2

\* The loop of #parsePattern from position i
RECURSIVE parseFrom(_, _, _, _)
parseFrom(pattern, i, segments, current) ==
  IF i > Len(pattern) THEN flushLiteral(segments, current)
  ELSE
    CASE pattern[i] = "*" /\ i + 1 <= Len(pattern) /\ pattern[i + 1] = "*" ->
           parseFrom(pattern, afterGlobstar(pattern, i),
                     Append(flushLiteral(segments, current),
                            GlobSegment("globstar", <<"*", "*">>, FALSE)),
                     <<>>)
      [] pattern[i] = "*" /\ ~(i + 1 <= Len(pattern) /\ pattern[i + 1] = "*") ->
           parseFrom(pattern, i + 1,
                     Append(flushLiteral(segments, current),
                            GlobSegment("wildcard", <<"*">>, FALSE)),
                     <<>>)
      [] pattern[i] = "?" ->
           parseFrom(pattern, i + 1,
                     Append(flushLiteral(segments, current),
                            GlobSegment("wildcard", <<"?">>, FALSE)),
                     <<>>)
      [] pattern[i] = "[" /\ IndexOfFrom(pattern, "]", i + 1) # 0 ->
           parseFrom(pattern, IndexOfFrom(pattern, "]", i + 1) + 1,
                     Append(flushLiteral(segments, current),
                            rangeSegment(SubSeq(pattern, i + 1,
                                                IndexOfFrom(pattern, "]", i + 1) - 1))),
                     <<>>)
      [] pattern[i] = "{" /\ findClosingBrace(pattern, i) # 0 ->
           parseFrom(pattern, findClosingBrace(pattern, i) + 1,
                     Append(flushLiteral(segments, current),
                            GlobSegment("brace",
                                        SplitOn(SubSeq(pattern, i + 1,
                                                       findClosingBrace(pattern, i) - 1),
                                                ","),
                                        FALSE)),
                     <<>>)
      [] pattern[i] = "\\" /\ i + 1 <= Len(pattern) ->
           parseFrom(pattern, i + 2, segments, Append(current, pattern[i + 1]))
      [] OTHER ->
           parseFrom(pattern, i + 1, segments, Append(current, pattern[i]))

\* #parsePattern(pattern)
parsePattern(pattern) == parseFrom(pattern, 1, <<>>, <<>>)

\* The character codes of the alphabet, which order the ranges of a class
CharCode(c) ==
  CASE c = "!" -> 33 [] c = "*" -> 42 [] c = "," -> 44 [] c = "-" -> 45
    [] c = "." -> 46 [] c = "/" -> 47 [] c = "?" -> 63 [] c = "A" -> 65
    [] c = "B" -> 66 [] c = "[" -> 91 [] c = "\\" -> 92 [] c = "]" -> 93
    [] c = "^" -> 94 [] c = "a" -> 97 [] c = "b" -> 98 [] c = "{" -> 123
    [] c = "}" -> 125 [] OTHER -> 0

\* The case folding of the regex flag 'i'
FoldCase(c, caseSensitive) ==
  IF caseSensitive THEN c
  ELSE CASE c = "A" -> "a" [] c = "B" -> "b" [] OTHER -> c

\* new RegExp('[' + value + ']'): a range x-y whose ends are out of order
\* is a SyntaxError
RECURSIVE classOk(_, _)
classOk(value, k) ==
  IF k > Len(value) THEN TRUE
  ELSE IF k + 2 <= Len(value) /\ value[k + 1] = "-"
       THEN CharCode(value[k]) <= CharCode(value[k + 2]) /\ classOk(value, k + 3)
       ELSE classOk(value, k + 1)

\* c is a member of the character class with this content
RECURSIVE inClass(_, _, _, _)
inClass(value, k, c, caseSensitive) ==
  IF k > Len(value) THEN FALSE
  ELSE IF k + 2 <= Len(value) /\ value[k + 1] = "-"
       THEN \/ \E x \in {c, FoldCase(c, caseSensitive)} :
                 /\ CharCode(value[k]) <= CharCode(x)
                 /\ CharCode(x) <= CharCode(value[k + 2])
            \/ inClass(value, k + 3, c, caseSensitive)
       ELSE \/ FoldCase(value[k], caseSensitive) = FoldCase(c, caseSensitive)
            \/ inClass(value, k + 1, c, caseSensitive)

\* The literal text v stands in str at position i
LiteralAt(str, i, v, caseSensitive) ==
  /\ i + Len(v) - 1 <= Len(str)
  /\ \A m \in 1..Len(v) :
       FoldCase(str[i + m - 1], caseSensitive) = FoldCase(v[m], caseSensitive)

\* A wildcard fragment that lets "/" through
wildcardRun_AnyChar(str, i, j) == TRUE

\* The wildcard fragment [^/]* matches str from position i up to, not
\* including, position j
wildcardRun(str, i, j) ==
  \A m \in i..(j - 1) : str[m] # "/"

\* The globstar fragment (?:(?:[^/]*(?:/|$))*) matches str from position i
\* up to, not including, position j: nothing, or groups of non-separators
\* each closed by a "/" or by the end of str
globstarSpan(str, i, j) ==
  j = i \/ j = Len(str) + 1 \/ str[j - 1] = "/"

\* this.#regex.test(testPath), for the regex #buildRegex makes of the
\* segments: the segments from the k-th on match str from position i to
\* its end
RECURSIVE regexTest(_, _, _, _, _)
regexTest(segments, k, str, i, caseSensitive) ==
  IF k > Len(segments) THEN i > Len(str)
  ELSE
    CASE segments[k].type = "literal" ->
           /\ LiteralAt(str, i, segments[k].value, caseSensitive)
           /\ regexTest(segments, k + 1, str, i + Len(segments[k].value),
                        caseSensitive)
      [] segments[k].type = "wildcard" /\ segments[k].value = <<"*">> ->
           \E j \in i..(Len(str) + 1) :
             /\ wildcardRun(str, i, j)
             /\ regexTest(segments, k + 1, str, j, caseSensitive)
      [] segments[k].type = "wildcard" /\ segments[k].value # <<"*">> ->
           /\ i <= Len(str)
           /\ str[i] # "/"
           /\ regexTest(segments, k + 1, str, i + 1, caseSensitive)
      [] segments[k].type = "globstar" ->
           \E j \in i..(Len(str) + 1) :
             /\ globstarSpan(str, i, j)
             /\ regexTest(segments, k + 1, str, j, caseSensitive)
      [] segments[k].type = "range" ->
           /\ i <= Len(str)
           /\ inClass(segments[k].value, 1, str[i], caseSensitive)
                # segments[k].negated
           /\ regexTest(segments, k + 1, str, i + 1, caseSensitive)
      [] OTHER ->
           \E a \in 1..Len(segments[k].value) :
             /\ LiteralAt(str, i, segments[k].value[a], caseSensitive)
             /\ regexTest(segments, k + 1, str, i + Len(segments[k].value[a]),
                          caseSensitive)

\* #buildRegex(): whether new RegExp accepts the regex of the segments
buildRegexOk(segments) ==
  \A k \in 1..Len(segments) :
    segments[k].type = "range" => classOk(segments[k].value, 1)

\* path.replace(/\\/g, '/')
normalizeSeparators(path) ==
  [i \in 1..Len(path) |-> IF path[i] = "\\" THEN "/" ELSE path[i]]

\* normalizedPath.split('/').pop() || ''
basename(normalizedPath) ==
  SplitOn(normalizedPath, "/")[Len(SplitOn(normalizedPath, "/"))]

\* The matcher that takes a backslash of the pattern for itself
GlobMatcher_matches_NoEscape(pattern, o, path) ==
  [ok |-> TRUE,
   val |-> IF o.matchBase THEN basename(normalizeSeparators(path)) = pattern
           ELSE normalizeSeparators(path) = pattern]

\* new GlobMatcher(pattern, options).matches(path)
GlobMatcher_matches(pattern, o, path) ==
  IF ~buildRegexOk(parsePattern(pattern)) THEN [ok |-> FALSE, val |-> FALSE]
  ELSE [ok |-> TRUE,
        val |-> regexTest(parsePattern(pattern), 1,
                          IF o.matchBase
                          THEN basename(normalizeSeparators(path))
                          ELSE normalizeSeparators(path),
                          1, o.caseSensitive)]

\* Longest pattern and longest candidate drawn from the alphabets in full
MaxPatternLen == 2

MaxCandidateLen == 3

\* Patterns passed to the matcher
GlobPatterns ==
  StringsUpTo({"a", ".", "/", "\\", "*", "?", "[", "]", "{", "}", ","},
              MaxPatternLen)
  \cup { <<"a", "\\", "b">>, <<"a", ".", "b">>, <<"a", "/", "b">>,
         <<"a", "\\", "/", "b">>, <<"\\", "\\", "a">>, <<"A">>,
         <<"*", "*", "/", "a">>, <<"a", "/", "*", "*">>, <<"*", ".", "a">>,
         <<"[", "a", "-", "b", "]">>, <<"[", "!", "a", "]">>,
         <<"[", "b", "-", "a", "]">>, <<"{", "a", ",", "b", "}">>,
         <<"{", "a", ",", "{", "b", "}", "}">>, <<"a", "?", "b">>,
         <<"a", "*", "*">>, <<"a", "/", "*", "*", "/", "b">>,
         <<"*", "*", "/", "*", ".", "t", "s">>, <<"*", ".", "j", "s">>,
         <<"a", "*", "b">>, <<"*", "/", "*">>, <<"a", "/", "?">>,
         <<"?", "*", "?">>, <<"*", "a", "*">>,
         <<"[", "a", "-", "b">>, <<"a", "[", "*">>, <<"{", "a", ",", "b">>,
         <<"{", "a", "{", "b", "}">>, <<"{", "a", "\\", "}">>,
         <<"a", "{", "[", "b", "]">>, <<"[", "{", "a", "}">> }

\* Candidate paths
GlobCandidates ==
  StringsUpTo({"a", "b", ".", "/", "\\"}, MaxCandidateLen)
  \cup { <<"A">>, <<"a", "/", "b", "/", "a">>, <<"a", "\\", "/", "b">>,
         <<"a", "/", "x", "/", "y", "/", "b">>,
         <<"s", "r", "c", "/", "u", "t", "i", "l", "s", "/",
           "h", "e", "l", "p", "e", "r", ".", "t", "s">>,
         <<"f", "i", "l", "e", ".", "j", "s">>,
         <<"s", "r", "c", "/", "f", "i", "l", "e", ".", "j", "s">>,
         <<"[">>, <<"{">>, <<"[", "a">>, <<"{", "a">>, <<"a", "[">>,
         <<"[", "a", "-", "b">>, <<"{", "a", ",", "b">>, <<"{", "a", "b">>,
         <<"{", "a", "}">>, <<"a", "{", "b">>, <<"[", "a", "a">> }

\* { caseSensitive, matchBase }
MatcherOptions == [caseSensitive : BOOLEAN, matchBase : BOOLEAN]

\* The calls to make: a pattern to compile and a candidate to test
GlobCalls ==
  [op : {"call"}, pattern : GlobPatterns, opts : MatcherOptions,
   arg : GlobCandidates]

\* A matcher about to be built and asked
GlobInit ==
  /\ appRoot \in Roots
  /\ strict = FALSE
  /\ cacheEnabled = FALSE
  /\ maxSize = MaxCapacity
  /\ ttl = 0
  /\ lru = NewCache
  /\ templates = [n \in {<<"t">>} |-> [kind |-> "str", val |-> <<"x">>]]
  /\ now = 0
  /\ fs = HostFs
  /\ temp = NoTemp
  /\ inserted = {}
  /\ getSetOnly = TRUE
  /\ last \in GlobCalls

\* new GlobMatcher(pattern, options).matches(path)
Matches ==
  /\ last.op = "call"
  /\ last' = [op |-> "matches", pattern |-> last.pattern, opts |-> last.opts,
              arg |-> last.arg,
              ok |-> GlobMatcher_matches(last.pattern, last.opts, last.arg).ok,
              val |-> GlobMatcher_matches(last.pattern, last.opts, last.arg).val]
  /\ UNCHANGED <<config, fs, temp, lru, templates, now, inserted, getSetOnly>>

\* Candidates of a later call on the same matcher
LaterCandidates == { <<"a">>, <<"a", "/", "b">> }

\* matcher.matches(path) once more: #regex is kept once it has been built,
\* and built again after a build that threw
MatchesAgain(path) ==
  /\ last.op = "matches"
  /\ last' = [op |-> "matchesAgain", pattern |-> last.pattern,
              opts |-> last.opts, arg |-> path,
              ok |-> GlobMatcher_matches(last.pattern, last.opts, path).ok,
              val |-> GlobMatcher_matches(last.pattern, last.opts, path).val]
  /\ UNCHANGED <<config, fs, temp, lru, templates, now, inserted, getSetOnly>>

GlobNext ==
  \/ Matches
  \/ \E path \in LaterCandidates : MatchesAgain(path)

GlobSpec == GlobInit /\ [][GlobNext]_vars

\* ------------------------------------------------------------------------
\* Temporary instances: createTemp, cleanup, withTemp
\* ------------------------------------------------------------------------

\* os.tmpdir()
TmpDir == <<"/", "t">>

\* The names mkdtemp can give the new directory
TempNames == { <<"p">>, <<"q">> }

\* options.fixtures: the relative paths, in the order of the record; data
\* is not modelled
FixtureLists ==
  { <<>>,
    << <<"x">> >>,
    << <<"a">> >>,
    << <<"x">>, <<"x", "/", "y">> >> }

\* Paths the caller passes to the temporary instance
TempPaths == { <<"x">>, <<"a", "/", "x">>, <<"d">> }

\* What a callback settles with
CallbackOutcomes == { Outcome(TRUE, "success"), Outcome(FALSE, "test error") }

\* cleanup() calls made on one instance by its user
MaxCleanupCalls == 3

\* Object.values(this.#directories)
DirectoryValues == <<Directories["logs"], Directories["config"]>>

\* dirname(fullPath), for a normalized absolute path
dirname(fullPath) == Parent(fullPath)

\* The loop over the configured directories: mkdir -p of each beneath
\* tempRoot, up to the first error
RECURSIVE createDirectories(_, _, _)
createDirectories(f, tempRoot, dirPaths) ==
  IF Len(dirPaths) = 0 THEN FsResult(f, "none")
  ELSE IF ~fsMkdir(f, join(<<tempRoot, dirPaths[1]>>), TRUE).ok
       THEN fsMkdir(f, join(<<tempRoot, dirPaths[1]>>), TRUE)
       ELSE createDirectories(fsMkdir(f, join(<<tempRoot, dirPaths[1]>>), TRUE).fs,
                              tempRoot, Tail(dirPaths))

\* One fixture: mkdir -p of its directory, then writeFile
createFixture(f, fullPath) ==
  IF ~fsMkdir(f, dirname(fullPath), TRUE).ok
  THEN fsMkdir(f, dirname(fullPath), TRUE)
  ELSE fsWriteFile(fsMkdir(f, dirname(fullPath), TRUE).fs, fullPath, <<>>)

\* The loop over the fixtures, up to the first error
RECURSIVE createFixtures(_, _, _)
createFixtures(f, tempRoot, fixtures) ==
  IF Len(fixtures) = 0 THEN FsResult(f, "none")
  ELSE IF ~createFixture(f, join(<<tempRoot, fixtures[1]>>)).ok
       THEN createFixture(f, join(<<tempRoot, fixtures[1]>>))
       ELSE createFixtures(createFixture(f, join(<<tempRoot, fixtures[1]>>)).fs,
                           tempRoot, Tail(fixtures))

\* mkdtemp(join(tmpdir(), prefix)), the host choosing the name tempRoot
mkdtemp(f, tempRoot) ==
  FsResult([f EXCEPT !.dirs = @ \cup {tempRoot}], "none")

\* The directories step of createTemp
createTempDirs(f, tempRoot, createDirs) ==
  IF createDirs THEN createDirectories(f, tempRoot, DirectoryValues)
  ELSE FsResult(f, "none")

\* pal.createTemp({createDirs, fixtures}): the filesystem afterwards and
\* whether the call resolved
createTemp(f, tempRoot, createDirs, fixtures) ==
  IF ~createTempDirs(mkdtemp(f, tempRoot).fs, tempRoot, createDirs).ok
  THEN createTempDirs(mkdtemp(f, tempRoot).fs, tempRoot, createDirs)
  ELSE createFixtures(createTempDirs(mkdtemp(f, tempRoot).fs, tempRoot,
                                     createDirs).fs,
                      tempRoot, fixtures)

\* The record of a call on the temporary instance: flag is isCleanedUp
\* when the call was made, removed whether it called fs.rm
TempCall(op, ok, err, flag, removed) ==
  [op |-> op, ok |-> ok, err |-> err, flag |-> flag, removed |-> removed]

\* A resolver with a host that has a temporary directory
TempInit ==
  /\ appRoot \in Roots
  /\ strict = FALSE
  /\ cacheEnabled = FALSE
  /\ maxSize = MaxCapacity
  /\ ttl = 0
  /\ lru = NewCache
  /\ now = 0
  /\ fs = [HostFs EXCEPT !.dirs = @ \cup {TmpDir}]
  /\ temp = NoTemp
  /\ inserted = {}
  /\ getSetOnly = TRUE
  /\ templates = [n \in {<<"t">>} |-> [kind |-> "str", val |-> <<"x">>]]
  /\ last = TempCall("new", TRUE, "none", FALSE, FALSE)

\* The outcome r of createTemp for the directory tempRoot: an instance in
\* the mode made, or a rejection in the mode failed
Created(tempRoot, r, made, failed) ==
  /\ fs' = r.fs
  /\ temp' = [NoTemp EXCEPT
                !.mode = IF r.ok THEN made ELSE failed,
                !.root = tempRoot,
                !.result = IF r.ok \/ failed # "settled" THEN NoOutcome
                           ELSE Outcome(FALSE, r.err)]
  /\ last' = TempCall("createTemp", r.ok, r.err, FALSE, FALSE)
  /\ UNCHANGED <<config, lru, templates, now, inserted, getSetOnly>>

\* temp = await pal.createTemp(options)
CreateTemp(name, createDirs, fixtures) ==
  /\ temp.mode = "none"
  /\ Created(join(<<TmpDir, name>>),
             createTemp(fs, join(<<TmpDir, name>>), createDirs, fixtures),
             "created", "failed")

\* pal.withTemp(callback, options) up to the call of the callback: a
\* rejection of createTemp settles the call
WithTemp(name, createDirs, fixtures) ==
  /\ temp.mode = "none"
  /\ Created(join(<<TmpDir, name>>),
             createTemp(fs, join(<<TmpDir, name>>), createDirs, fixtures),
             "callback", "settled")

\* A file operation on the temporary instance, r its host call
TempOperation(op, r) ==
  /\ temp.mode \in {"created", "callback"}
  /\ fs' = r.fs
  /\ last' = TempCall(op, r.ok, r.err, temp.isCleanedUp, FALSE)
  /\ UNCHANGED <<config, temp, lru, templates, now, inserted, getSetOnly>>

\* temp.writeFile(path, data)
TempWriteFile(path) ==
  TempOperation("writeFile", fsWriteFile(fs, join(<<temp.root, path>>), <<>>))

\* temp.ensureDir(path)
TempEnsureDir(path) ==
  TempOperation("ensureDir", ensureDir(fs, join(<<temp.root, path>>)))

\* A cleanup that removes whatever isCleanedUp says
cleanupStarts_NoGuard(flag) == TRUE

\* cleanup(): past the isCleanedUp test, the call goes on to fs.rm
cleanupStarts(flag) == ~flag

\* temp.cleanup() called by the user of the instance, up to its await: it
\* returns at once when isCleanedUp is set
Cleanup ==
  /\ temp.mode \in {"created", "callback"}
  /\ temp.calls < MaxCleanupCalls
  /\ temp' = [temp EXCEPT
                !.calls = @ + 1,
                !.pending = IF cleanupStarts(temp.isCleanedUp) THEN @ + 1 ELSE @]
  /\ last' = TempCall("cleanup", TRUE, "none", temp.isCleanedUp,
                      cleanupStarts(temp.isCleanedUp))
  /\ UNCHANGED <<config, fs, lru, templates, now, inserted, getSetOnly>>

\* The rest of a cleanup() call, r the answer of
\* fs.rm(tempRoot, {recursive: true, force: true}): isCleanedUp is set
\* unless the removal failed; done is the mode afterwards
CleanupRemoves(r, done) ==
  /\ fs' = r.fs
  /\ temp' = [temp EXCEPT
                !.mode = done,
                !.isCleanedUp = @ \/ r.ok,
                !.removals = @ + 1,
                !.pending = IF done = temp.mode THEN @ - 1 ELSE @,
                !.result = IF done = temp.mode THEN @
                           ELSE IF r.ok THEN temp.cb
                           ELSE Outcome(FALSE, r.err)]
  /\ last' = TempCall("cleanupDone", r.ok, r.err, temp.isCleanedUp, TRUE)
  /\ UNCHANGED <<config, lru, templates, now, inserted, getSetOnly>>

\* A cleanup() call of the user gets past its await
CleanupDone ==
  /\ temp.pending > 0
  /\ CleanupRemoves(fsRm(fs, temp.root, TRUE, TRUE), temp.mode)

\* The callback of withTemp resolves or rejects
CallbackSettles(outcome) ==
  /\ temp.mode = "callback"
  /\ temp' = [temp EXCEPT !.mode = "finally", !.cb = outcome]
  /\ last' = TempCall("callback", outcome.ok, outcome.val, temp.isCleanedUp, FALSE)
  /\ UNCHANGED <<config, fs, lru, templates, now, inserted, getSetOnly>>

\* finally { await temp.cleanup() }, up to the await: with isCleanedUp set
\* the call returns and withTemp settles as the callback did
FinallyCleanup ==
  /\ temp.mode = "finally"
  /\ temp' = [temp EXCEPT
                !.mode = IF cleanupStarts(temp.isCleanedUp) THEN "cleaning"
                         ELSE "settled",
                !.result = IF cleanupStarts(temp.isCleanedUp) THEN @ ELSE temp.cb]
  /\ last' = TempCall("cleanup", TRUE, "none", temp.isCleanedUp,
                      cleanupStarts(temp.isCleanedUp))
  /\ UNCHANGED <<config, fs, lru, templates, now, inserted, getSetOnly>>

\* The cleanup of the finally block gets past its await and withTemp
\* settles: as the callback did, or with the error of the removal
FinallyDone ==
  /\ temp.mode = "cleaning"
  /\ CleanupRemoves(fsRm(fs, temp.root, TRUE, TRUE), "settled")

TempNext ==
  \/ \E name \in TempNames, createDirs \in BOOLEAN, fixtures \in FixtureLists :
       \/ CreateTemp(name, createDirs, fixtures)
       \/ WithTemp(name, createDirs, fixtures)
  \/ \E path \in TempPaths : TempWriteFile(path) \/ TempEnsureDir(path)
  \/ Cleanup
  \/ CleanupDone
  \/ \E outcome \in CallbackOutcomes : CallbackSettles(outcome)
  \/ FinallyCleanup
  \/ FinallyDone

TempSpec == TempInit /\ [][TempNext]_vars

\* ------------------------------------------------------------------------
\* Properties
\* ------------------------------------------------------------------------

\* p is the root itself or a path beneath it
AtOrBeneath(p, root) == p = root \/ StartsWith(p, root \o <<"/">>)

\* Some segment contains ".." or is an absolute path
HasTraversalOrAbsolute(paths) ==
  \E i \in 1..Len(paths) : Includes(paths[i], DotDot) \/ isAbsolute(paths[i])

\* The keys and values of the cache, as a set of pairs
KeyValues(c) == {<<c[i].key, c[i].value>> : i \in 1..Len(c)}

\* What set() of a key not yet stored would evict
NextVictim(st, maxEntries) ==
  IF Len(st.cache) >= maxEntries /\ LruIndex(st.cache) # 0
  THEN [evicts |-> TRUE, key |-> st.cache[LruIndex(st.cache)].key]
  ELSE [evicts |-> FALSE, key |-> <<>>]

\* C1: in strict mode every path makePath returns is, after normalization,
\* the root or a path beneath the root.
C1_StrictResultWithinRoot ==
  (strict /\ last.op = "makePath" /\ last.ok)
     => AtOrBeneath(normalize(last.val), appRoot)

\* C2: in strict mode makePath throws whenever a segment contains ".." or
\* is an absolute path, with or without the cache and whatever was called
\* before.
C2_StrictRejectsTraversalAndAbsolute ==
  (strict /\ last.op = "makePath" /\ HasTraversalOrAbsolute(last.paths))
     => ~last.ok

\* C3 as stated: a makePath call that fails returns no path and leaves the
\* cached keys and values as they were before the call.
C3_FailureLeavesCacheUnchanged ==
  [][(last'.op = "makePath" /\ ~last'.ok)
       => /\ last'.val = <<>>
          /\ KeyValues(lru'.cache) = KeyValues(lru.cache)]_vars

\* C3 as amended: a makePath call that fails returns no path and adds or
\* changes no entry; the one change it can make to the cache is to remove
\* the entry of its own key when that entry has expired.
C3_FailureOnlyDropsExpiredOwnKey ==
  [][(last'.op = "makePath" /\ ~last'.ok)
       => /\ last'.val = <<>>
          /\ lru'.cache = IF ExpiredAt(lru, last'.key, now, ttl)
                          THEN MapDelete(lru.cache, last'.key)
                          ELSE lru.cache]_vars

C3_Witness ==
  /\ cacheEnabled
  /\ last.op = "makePath"
  /\ ~last.ok
  /\ last.expired
  /\ Len(lru.cache) > 0

\* C4: with the cache enabled, a makePath call that misses counts one miss
\* and stores its result under its key; a second call with the same
\* segments right after a call that returned a path returns the same
\* string, counts one hit and leaves the miss count and the size unchanged.
C4_RepeatedCallHits ==
  [][/\ (cacheEnabled /\ last'.op = "makePath" /\ last'.ok /\ ~last'.hit)
          => /\ lru'.misses = lru.misses + 1
             /\ lru'.hits = lru.hits
             /\ <<last'.key, last'.val>> \in KeyValues(lru'.cache)
     /\ (cacheEnabled /\ last.op = "makePath" /\ last.ok
           /\ last'.op = "makePath" /\ last'.paths = last.paths)
          => /\ last'.ok
             /\ last'.hit
             /\ last'.val = last.val
             /\ lru'.hits = lru.hits + 1
             /\ lru'.misses = lru.misses
             /\ Len(lru'.cache) = Len(lru.cache)]_vars

C4_Witness ==
  /\ cacheEnabled
  /\ last.op = "makePath"
  /\ last.hit
  /\ lru.hits = 1
  /\ lru.misses = 1
  /\ Len(lru.cache) = 1
  /\ lru.cache[1].key = last.key

\* C5: a get right after set(k, v) returns v, counts one hit and no miss;
\* a get of a key that is not stored returns undefined and counts exactly
\* one miss and no hit.
C5_SetThenGet ==
  [][/\ (last.op = "set" /\ last'.op = "get" /\ last'.key = last.key)
          => /\ last'.hit
             /\ last'.val = last.val
             /\ lru'.hits = lru.hits + 1
             /\ lru'.misses = lru.misses
     /\ (last'.op = "get" /\ IndexOf(lru.cache, last'.key) = 0)
          => /\ ~last'.hit
             /\ lru'.misses = lru.misses + 1
             /\ lru'.hits = lru.hits]_vars

C5_Witness ==
  /\ last.op = "get"
  /\ last.hit
  /\ last.val = <<"/", "s">>
  /\ lru.hits = 1
  /\ lru.misses = 1

\* C6: from an empty cache, once maxSize + 1 distinct keys were inserted
\* with only gets in between, exactly one eviction has happened and the
\* cache holds maxSize entries.
C6_OneEvictionAtCapacity ==
  (getSetOnly /\ Cardinality(inserted) = maxSize + 1)
     => (lru.evictions = 1 /\ Len(lru.cache) = maxSize)

\* C7: the number of stored entries never exceeds maxSize.
C7_SizeAtMostMaxSize == Len(lru.cache) <= maxSize

\* C8: with a TTL above 0, a lookup of an entry older than the TTL finds
\* nothing, counts a miss and no hit, and removes the entry, so that
\* makePath computes the path again and stores it afresh; with a TTL of 0
\* a stored entry is always found.
C8_ExpiredEntryIsRecomputed ==
  [][(cacheEnabled /\ last'.op = "makePath" /\ IndexOf(lru.cache, last'.key) # 0)
       => LET key == last'.key
              old == lru.cache[IndexOf(lru.cache, key)]
              i == IndexOf(lru'.cache, key)
          IN /\ (ttl > 0 /\ now - old.timestamp > ttl)
                  => /\ ~last'.hit
                     /\ lru'.misses = lru.misses + 1
                     /\ lru'.hits = lru.hits
                     /\ last'.ok = (i # 0)
                     /\ i # 0 => /\ lru'.cache[i].value = last'.val
                                 /\ lru'.cache[i].timestamp = now
                                 /\ lru'.cache[i].accessCount = 0
             /\ ttl = 0
                  => /\ last'.hit
                     /\ last'.val = old.value]_vars

C8_Witness ==
  /\ cacheEnabled
  /\ last.op = "makePath"
  /\ last.expired
  /\ last.ok
  /\ lru.misses = 2
  /\ IndexOf(lru.cache, last.key) # 0

\* What C9 says of every has(): it answers whether the key is stored and
\* not expired, and changes no access count and no counter.
HasAnswersAndCounts ==
  /\ last'.hit = (IndexOf(lru.cache, last'.key) # 0
                    /\ ~ExpiredAt(lru, last'.key, now, ttl))
  /\ \A i \in 1..Len(lru'.cache) :
        \E j \in 1..Len(lru.cache) : lru.cache[j] = lru'.cache[i]
  /\ lru'.hits = lru.hits
  /\ lru'.misses = lru.misses
  /\ lru'.evictions = lru.evictions

\* C9 as stated: has() answers whether the key is stored and not expired,
\* changes no access count and no counter, and leaves the next eviction
\* choice as it was.
C9_HasLeavesEvictionChoice ==
  [][last'.op = "has"
       => /\ HasAnswersAndCounts
          /\ NextVictim(lru', maxSize) = NextVictim(lru, maxSize)]_vars

\* C9 as amended: has() answers whether the key is stored and not expired
\* and changes no access count and no counter; it changes the cache only by
\* removing the entry it looked up when that entry has expired, and in
\* every other case the next eviction choice is as it was.
C9_HasOnlyDropsExpiredKey ==
  [][last'.op = "has"
       => /\ HasAnswersAndCounts
          /\ lru'.cache = IF ExpiredAt(lru, last'.key, now, ttl)
                          THEN MapDelete(lru.cache, last'.key)
                          ELSE lru.cache
          /\ ~ExpiredAt(lru, last'.key, now, ttl)
               => NextVictim(lru', maxSize) = NextVictim(lru, maxSize)]_vars

C9_Witness ==
  /\ last.op = "has"
  /\ ~last.hit
  /\ last.expired
  /\ Len(lru.cache) = 1
  /\ lru.hits = 1

\* C10: clear() removes every entry and resets the three counters, so the
\* statistics equal those of a new cache; delete(key) removes that key
\* only and changes no counter.
C10_ClearResetsDeleteRemovesOne ==
  [][/\ last'.op = "clear"
          => /\ lru'.cache = <<>>
             /\ getStats(lru', maxSize) = getStats(NewCache, maxSize)
     /\ last'.op = "delete"
          => /\ lru'.cache = MapDelete(lru.cache, last'.key)
             /\ lru'.hits = lru.hits
             /\ lru'.misses = lru.misses
             /\ lru'.evictions = lru.evictions]_vars

C10_Witness ==
  /\ last.op = "clear"
  /\ last.size = 2
  /\ lru.cache = <<>>

\* The entry stored under key was cached for a path of the configured
\* directory: the directory itself or a path beneath it
BelongsTo(key, directory) ==
  /\ DirPath(directory) # <<>>
  /\ \/ key = DirPath(directory)
     \/ StartsWith(key, DirPath(directory) \o <<"/">>)

\* C11: clearCache(directory) removes exactly the entries cached for paths
\* of that directory and leaves every other entry and all counters
\* unchanged; for a name that is not configured it changes nothing.
C11_ClearCacheDirectoryOnly ==
  [][(last'.op = "clearCache" /\ Len(last'.paths) = 1) =>
       /\ lru'.cache = SelectSeq(lru.cache,
                                 LAMBDA e : ~BelongsTo(e.key, last'.paths[1]))
       /\ lru'.hits = lru.hits
       /\ lru'.misses = lru.misses
       /\ lru'.evictions = lru.evictions]_vars

\* C12: for an absolute path p, isWithinRoot(p) is true exactly when p,
\* normalized, is the root or a path beneath the root.
C12_IsWithinRootExact ==
  (last.op = "isWithinRoot" /\ isAbsolute(last.path)) =>
    /\ last.ok
    /\ last.val <=> AtOrBeneath(Canon(last.path), appRoot)

\* C13: in strict mode resolveSymlink never returns a real target that the
\* host resolved to a place outside the root; it fails instead.
C13_StrictSymlinkTargetWithinRoot ==
  (strict /\ last.op = "resolveSymlink" /\ last.ok /\ last.target # <<>>) =>
    AtOrBeneath(last.val, appRoot)

\* The place a path argument designates: itself when absolute, otherwise
\* taken from the root
Designates(path) ==
  Canon(IF isAbsolute(path) THEN path ELSE appRoot \o <<"/">> \o path)

\* C14: rmdir and deleteRecursive, given any path that designates the root
\* directory, throw and remove nothing.
C14_RootIsNeverRemoved ==
  (last.op \in {"rmdir", "deleteRecursive"} /\ Designates(last.path) = appRoot) =>
    /\ ~last.ok
    /\ last.removed = {}

\* The file operations that check the boundary in strict mode
FileOps ==
  {"readFile", "writeFile", "mkdir", "rmdir", "deleteRecursive", "ensureDir",
   "listFiles", "watch", "glob"}

\* C15: in strict mode a file operation whose target path lies outside the
\* root throws before any host filesystem call is made.
C15_StrictBlocksOutsideRoot ==
  (strict /\ last.op \in FileOps /\ ~AtOrBeneath(Designates(last.path), appRoot)) =>
    /\ ~last.ok
    /\ ~last.called

\* C16: with default options the result of sanitizeFilename contains none
\* of the characters < > : " | ? * \ / and no NUL.
C16_DefaultResultHasNoDangerousChar ==
  (last.op = "sanitizeFilename" /\ last.opts = DefaultOptions) =>
    \A i \in 1..Len(last.val) : last.val[i] \notin DangerousChars

\* A name with dangerous characters was sanitized with default options
C16_Witness ==
  /\ last.op = "sanitizeFilename"
  /\ last.opts = DefaultOptions
  /\ last.arg = <<"a", ">", ":", "\"", "|", "?", "*">>
  /\ last.val = <<"a", "_", "_", "_", "_", "_", "_">>

UnnamedCutTo(maxLength) ==
  IF maxLength >= Len(Unnamed) THEN Unnamed ELSE Slice0(Unnamed, maxLength)

C18_ResultNameNotReserved ==
  (last.op = "sanitizeFilename") =>
    toUpperCase(splitFilename(last.val).name) \notin WindowsReservedNames

\* The "/"-separated segments of a sanitized path
ResultSegments(v) == IF v = <<>> THEN <<>> ELSE SplitOn(v, "/")

\* The segments of a path, split on "/" and "\", that are neither empty
\* nor ".."
KeptSegments(path) ==
  SelectSeq(SplitOnSeparators(path), LAMBDA seg : seg # <<>> /\ seg # DotDot)

\* 'uploads/etc/passwd'
UploadsResult ==
  <<"u", "p", "l", "o", "a", "d", "s", "/", "e", "t", "c", "/",
    "p", "a", "s", "s", "w", "d">>

NoGlobChar(pattern) ==
  \A i \in 1..Len(pattern) : pattern[i] \notin {"*", "?", "[", "{"}

\* The pattern with its escapes resolved: a backslash gives way to the
\* character after it, and stands for itself at the end
RECURSIVE Unescaped(_)
Unescaped(pattern) ==
  IF Len(pattern) = 0 THEN pattern
  ELSE IF pattern[1] = "\\" /\ Len(pattern) >= 2
       THEN <<pattern[2]>> \o Unescaped(SubSeq(pattern, 3, Len(pattern)))
       ELSE <<pattern[1]>> \o Unescaped(Tail(pattern))

\* C20 as stated: a case-sensitive matcher for a pattern without * ? [ {
\* accepts a candidate exactly when the candidate, backslashes turned to
\* '/', equals the pattern.
C20_LiteralPatternIsEquality ==
  (/\ last.op = "matches"
   /\ NoGlobChar(last.pattern)
   /\ last.opts.caseSensitive
   /\ ~last.opts.matchBase) =>
    /\ last.ok
    /\ last.val <=> normalizeSeparators(last.arg) = last.pattern

\* C20: a case-sensitive matcher for a pattern without * ? [ { accepts a
\* candidate exactly when the candidate, backslashes turned to '/', equals
\* the pattern with its backslash escapes resolved; for a pattern without
\* a backslash that is the pattern itself.
C20_LiteralPatternIsEqualityUpToEscapes ==
  (/\ last.op = "matches"
   /\ NoGlobChar(last.pattern)
   /\ last.opts.caseSensitive
   /\ ~last.opts.matchBase) =>
    /\ last.ok
    /\ last.val <=> normalizeSeparators(last.arg) = Unescaped(last.pattern)
    /\ (\A i \in 1..Len(last.pattern) : last.pattern[i] # "\\") =>
         (last.val <=> normalizeSeparators(last.arg) = last.pattern)

\* C20 witness: the case-sensitive matcher of the pattern a/b was asked
\* about the candidate a\b and accepted it
C20_Witness ==
  /\ last.op = "matches"
  /\ last.opts.caseSensitive
  /\ ~last.opts.matchBase
  /\ last.pattern = <<"a", "/", "b">>
  /\ last.arg = <<"a", "\\", "b">>
  /\ last.val

\* The index of the first globstar among the segments, 0 when there is none
FirstGlobstar(segments) ==
  IF \E k \in 1..Len(segments) : segments[k].type = "globstar"
  THEN CHOOSE k \in 1..Len(segments) :
         /\ segments[k].type = "globstar"
         /\ \A m \in 1..(k - 1) : segments[m].type # "globstar"
  ELSE 0

\* The texts str[i..j-1] the first globstar of the segments matches in some
\* accepting run of the matcher over str
GlobstarTexts(segments, str, caseSensitive) ==
  IF FirstGlobstar(segments) = 0 THEN {}
  ELSE { ij \in (1..(Len(str) + 1)) \X (1..(Len(str) + 1)) :
           /\ ij[1] <= ij[2]
           /\ regexTest(SubSeq(segments, 1, FirstGlobstar(segments) - 1), 1,
                        SubSeq(str, 1, ij[1] - 1), 1, caseSensitive)
           /\ globstarSpan(str, ij[1], ij[2])
           /\ regexTest(segments, FirstGlobstar(segments) + 1, str, ij[2],
                        caseSensitive) }

\* str[i..j-1] is empty or made of whole segments of str
WholeSegments(str, i, j) ==
  \/ i = j
  \/ /\ i = 1 \/ str[i - 1] = "/"
     /\ j = Len(str) + 1 \/ str[j - 1] = "/"

\* C21: whenever a matcher accepts a candidate, the text its globstar
\* matched is empty or a sequence of whole path segments; a/**/b accepts
\* a/b and a/x/y/b, and **/*.ts accepts src/utils/helper.ts.
C21_GlobstarMatchesWholeSegments ==
  (/\ last.op = "matches"
   /\ ~last.opts.matchBase
   /\ last.ok) =>
    /\ last.val =>
         \A ij \in GlobstarTexts(parsePattern(last.pattern),
                                 normalizeSeparators(last.arg),
                                 last.opts.caseSensitive) :
           WholeSegments(normalizeSeparators(last.arg), ij[1], ij[2])
    /\ (/\ last.pattern = <<"a", "/", "*", "*", "/", "b">>
        /\ last.arg \in {<<"a", "/", "b">>,
                         <<"a", "/", "x", "/", "y", "/", "b">>}) => last.val
    /\ (/\ last.pattern = <<"*", "*", "/", "*", ".", "t", "s">>
        /\ last.arg = <<"s", "r", "c", "/", "u", "t", "i", "l", "s", "/",
                        "h", "e", "l", "p", "e", "r", ".", "t", "s">>) => last.val

\* The pattern is made of literal characters, * and ? alone: no globstar,
\* bracket, brace or backslash
WildcardsOnly(pattern) ==
  /\ \A i \in 1..Len(pattern) : pattern[i] \notin {"[", "{", "\\"}
  /\ \A i \in 1..(Len(pattern) - 1) : ~(pattern[i] = "*" /\ pattern[i + 1] = "*")

\* The textbook wildcard match of one path segment: * is any run of
\* characters, ? is any one character, every other character is itself
RECURSIVE WildMatch(_, _, _)
WildMatch(p, c, caseSensitive) ==
  IF Len(p) = 0 THEN Len(c) = 0
  ELSE IF p[1] = "*"
       THEN \/ WildMatch(Tail(p), c, caseSensitive)
            \/ Len(c) > 0 /\ WildMatch(p, Tail(c), caseSensitive)
       ELSE /\ Len(c) > 0
            /\ p[1] = "?" \/ FoldCase(p[1], caseSensitive) = FoldCase(c[1], caseSensitive)
            /\ WildMatch(Tail(p), Tail(c), caseSensitive)

\* Pattern and candidate have the same number of segments and match
\* segment by segment
MatchesSegmentwise(pattern, str, caseSensitive) ==
  /\ Len(SplitOn(pattern, "/")) = Len(SplitOn(str, "/"))
  /\ \A n \in 1..Len(SplitOn(pattern, "/")) :
       WildMatch(SplitOn(pattern, "/")[n], SplitOn(str, "/")[n], caseSensitive)

\* C22: for a pattern of literals, * and ?, the matcher accepts a candidate
\* exactly when both have the same separators and each segment of the
\* candidate matches the pattern's segment, * standing for any run without
\* '/' and ? for one character other than '/'; *.js accepts file.js and
\* rejects src/file.js.
C22_WildcardsStayWithinSegment ==
  (/\ last.op = "matches"
   /\ ~last.opts.matchBase
   /\ WildcardsOnly(last.pattern)) =>
    /\ last.ok
    /\ last.val <=> MatchesSegmentwise(last.pattern,
                                        normalizeSeparators(last.arg),
                                        last.opts.caseSensitive)
    /\ (/\ last.pattern = <<"*", ".", "j", "s">>
        /\ last.arg = <<"f", "i", "l", "e", ".", "j", "s">>) => last.val

\* C22 witness: *.js was asked about src/file.js and rejected it
C22_Witness ==
  /\ last.op = "matches"
  /\ ~last.opts.matchBase
  /\ last.pattern = <<"*", ".", "j", "s">>
  /\ last.arg = <<"s", "r", "c", "/", "f", "i", "l", "e", ".", "j", "s">>
  /\ last.ok
  /\ ~last.val

\* The text holds no glob syntax: none of * ? [ { and no backslash
LiteralOnly(text) ==
  \A i \in 1..Len(text) : text[i] \notin {"*", "?", "[", "{", "\\"}

\* The character at position j of the text is not escaped: the run of
\* backslashes right before it has even length
RECURSIVE BackslashesBefore(_, _)
BackslashesBefore(text, j) ==
  IF j > 1 /\ text[j - 1] = "\\" THEN 1 + BackslashesBefore(text, j - 1) ELSE 0

NotEscaped(text, j) == BackslashesBefore(text, j) % 2 = 0

\* Among the first j characters of the text, the unescaped ch
CountOf(text, ch, j) ==
  Cardinality({m \in 1..j : text[m] = ch /\ NotEscaped(text, m)})

\* The opening character has no partner in the text after it: no ]
\* follows a [, and after a { no prefix of the text has more unescaped }
\* than unescaped {
Unterminated(open, rest) ==
  IF open = "["
  THEN \A j \in 1..Len(rest) : rest[j] # "]"
  ELSE \A j \in 1..Len(rest) : CountOf(rest, "}", j) <= CountOf(rest, "{", j)

\* The segments with the literal text put in front
WithLiteralBefore(text, segments) ==
  IF Len(segments) > 0 /\ segments[1].type = "literal"
  THEN <<GlobSegment("literal", text \o segments[1].value, FALSE)>>
         \o Tail(segments)
  ELSE <<GlobSegment("literal", text, FALSE)>> \o segments

\* C23: a pattern with an unterminated [ or { compiles: after literal text,
\* the unmatched opening character joins the literal run and what follows
\* it is parsed as it would be on its own; a pattern with no other glob
\* syntax then accepts exactly itself.
C23_UnterminatedOpenerIsLiteral ==
  last.op = "matches" =>
    \A i \in 1..Len(last.pattern) :
      (/\ last.pattern[i] \in {"[", "{"}
       /\ LiteralOnly(SubSeq(last.pattern, 1, i - 1))
       /\ Unterminated(last.pattern[i],
                       SubSeq(last.pattern, i + 1, Len(last.pattern)))) =>
        /\ parsePattern(last.pattern)
             = WithLiteralBefore(SubSeq(last.pattern, 1, i),
                                 parsePattern(SubSeq(last.pattern, i + 1,
                                                     Len(last.pattern))))
        /\ (/\ LiteralOnly(SubSeq(last.pattern, i + 1, Len(last.pattern)))
            /\ last.opts.caseSensitive
            /\ ~last.opts.matchBase) =>
             /\ last.ok
             /\ last.val <=> normalizeSeparators(last.arg) = last.pattern

\* C23 witness: the pattern [a-b, its bracket never closed, was asked
\* about the candidate [a-b and accepted it
C23_Witness ==
  /\ last.op = "matches"
  /\ last.pattern = <<"[", "a", "-", "b">>
  /\ last.arg = <<"[", "a", "-", "b">>
  /\ last.opts.caseSensitive
  /\ ~last.opts.matchBase
  /\ last.ok
  /\ last.val

\* C24: whenever a withTemp call has settled, the temporary directory it
\* created is gone, and when its callback ran the call settled as the
\* callback did: with its result or with its error.
C24_WithTempAlwaysCleansUp ==
  temp.mode = "settled" =>
    /\ temp.root \notin Nodes(fs)
    /\ temp.cb.ran => temp.result = temp.cb

\* C25: isCleanedUp is false until a cleanup() has removed the temporary
\* directory and stays true from then on; a cleanup() call made while it is
\* true returns without error, calls no removal and leaves the filesystem
\* as it is.
C25_CleanupIsIdempotent ==
  [][/\ temp.isCleanedUp => temp'.isCleanedUp
     /\ temp'.isCleanedUp => temp'.removals >= 1
     /\ (~temp.isCleanedUp /\ temp'.isCleanedUp) =>
          /\ last'.op = "cleanupDone"
          /\ temp.root \notin Nodes(fs')
     /\ (temp.isCleanedUp /\ last'.op = "cleanup") =>
          /\ last'.ok
          /\ ~last'.removed
          /\ fs' = fs
          /\ temp'.pending = temp.pending
          /\ temp'.removals = temp.removals]_vars

\* C25 witness: cleanup() was called on an instance already cleaned up,
\* for the second time at least, and returned without a removal
C25_Witness ==
  /\ last.op = "cleanup"
  /\ last.flag
  /\ last.ok
  /\ ~last.removed
  /\ temp.isCleanedUp
  /\ temp.calls >= 2
  /\ temp.removals = 1
  /\ temp.root \notin Nodes(fs)

\* The keys stored in the Map
KeysOf(c) == {c[i].key : i \in 1..Len(c)}

\* Iteration order is insertion order: from the Map c to the Map d the keys
\* that stay keep their order, and a key that is new stands after them all
OrderKept(c, d) ==
  \A i, j \in 1..Len(d) :
    (i < j /\ d[j].key \in KeysOf(c)) =>
      /\ d[i].key \in KeysOf(c)
      /\ IndexOf(c, d[i].key) < IndexOf(c, d[j].key)

\* C26: the Map iterates its keys in the order they were inserted, and a
\* set() of a new key into a full cache evicts exactly one entry: of those
\* with the lowest access count, the one inserted earliest.
C26_TiesBrokenByInsertionOrder ==
  [][/\ OrderKept(lru.cache, lru'.cache)
     /\ (/\ KeysOf(lru'.cache) \ KeysOf(lru.cache) # {}
         /\ Len(lru.cache) >= maxSize
         /\ Len(lru.cache) > 0) =>
          \E v \in 1..Len(lru.cache) :
            /\ KeysOf(lru.cache) \ KeysOf(lru'.cache) = {lru.cache[v].key}
            /\ \A j \in 1..Len(lru.cache) :
                 lru.cache[v].accessCount <= lru.cache[j].accessCount
            /\ \A j \in 1..(v - 1) :
                 lru.cache[j].accessCount > lru.cache[v].accessCount]_vars

\* C26 witness: a set() on a full cache of two evicted an entry whose
\* access count, 0, was that of the entry that stayed
C26_Witness ==
  /\ last.op = "set"
  /\ last.size = 2
  /\ lru.evictions = 1
  /\ Len(lru.cache) = 2
  /\ lru.cache[1].accessCount = 0
  /\ lru.cache[2].key = last.key

\* C27: a makePath that hits returns the stored value as it is, whatever
\* the templates are by then; registering, replacing or unregistering a
\* template leaves the cache as it was; and an entry leaves the cache only
\* by expiry of the key looked up, by eviction for a new key, or by
\* clearCache.
C27_HitsReturnStoredValue ==
  [][/\ (last'.op = "makePath" /\ last'.hit) =>
          /\ last'.ok
          /\ IndexOf(lru.cache, last'.key) # 0
          /\ last'.val = lru.cache[IndexOf(lru.cache, last'.key)].value
          /\ KeyValues(lru'.cache) = KeyValues(lru.cache)
     /\ last'.op \in {"registerTemplate", "unregisterTemplate"} => lru' = lru
     /\ \A key \in KeysOf(lru.cache) \ KeysOf(lru'.cache) :
          \/ last'.op = "clearCache"
          \/ /\ last'.op \in {"makePath", "isCached"}
             /\ last'.key = key
             /\ ExpiredAt(lru, key, now, ttl)
          \/ /\ last'.op = "makePath"
             /\ ~last'.hit
             /\ last'.key \in KeysOf(lru'.cache) \ KeysOf(lru.cache)
             /\ Len(lru.cache) >= maxSize]_vars

\* C27 witness: makePath('${t}') hit the cache and returned the stored
\* path after the template t had been unregistered
C27_Witness ==
  /\ last.op = "makePath"
  /\ last.hit
  /\ last.ok
  /\ last.paths = << <<"$", "{", "t", "}">> >>
  /\ <<"t">> \notin DOMAIN templates

\* C28: with the template registry fixed, every makePath on a resolver
\* with caching enabled has the outcome the same call has with caching
\* disabled: the same path, or the same failure.
C28_CachingIsTransparent ==
  (last.op = "makePath" /\ cacheEnabled) =>
    /\ last.ok = makePath(lru, FALSE, last.paths, appRoot, strict, templates,
                          now, maxSize, ttl).ok
    /\ last.val = makePath(lru, FALSE, last.paths, appRoot, strict, templates,
                           now, maxSize, ttl).val
    /\ last.err = makePath(lru, FALSE, last.paths, appRoot, strict, templates,
                           now, maxSize, ttl).err

\* C29: sanitizeFilename applied to its own result, with the same options,
\* returns that result unchanged.
C29_SanitizeFilenameIsIdempotent ==
  last.op = "sanitizeFilenameAgain" => last.val = last.arg

\* C30: the first and every later call of matches returns a boolean and
\* does not throw, whatever the pattern, and a later call answers as a
\* new matcher of the same pattern would.
C30_MatchingIsTotalAndPure ==
  last.op \in {"matches", "matchesAgain"} =>
    /\ last.ok
    /\ last.val \in BOOLEAN
    /\ last.val = GlobMatcher_matches(last.pattern, last.opts, last.arg).val

====
